---- MODULE Spec2Model ----
(***************************************************************************)
(* Catalog payload builder, cache gateway and invalidation hooks           *)
(* (sharing/services.py, catalog/signals.py, catalog/models.py) and the    *)
(* master-DB enrollment bridge (accounts/master_db.py) of peds_edu_app.    *)
(*                                                                         *)
(* Text is modelled as a sequence of one-character strings, so that        *)
(* lower-casing, stripping, joining, sorting and substring search are      *)
(* computed as the Python code computes them.                              *)
(***************************************************************************)
EXTENDS Integers, Sequences, FiniteSets, TLC

VARIABLES
    call,        \* a helper function applied on its own: its argument and result;
                 \* under SpecShare, per request worker: its doctor_share request
    db,          \* the catalog tables (default database)
    cache,       \* django cache: key -> stored value or NoValue
    readers,     \* per request worker: position inside get_catalog_json_cached
    writer,      \* the admin/import worker: position inside save()/delete() + signals
    hist,        \* bookkeeping about completed operations (not program state)
    payload,     \* result of the last direct _build_catalog_payload() call
    master,      \* the MASTER database tables the bridge reads and writes
    metaCache,   \* accounts.master_db._ENROLLMENT_META_CACHE
    eproc,       \* per worker: position inside ensure_enrollment
    ehist        \* bookkeeping about completed ensure_enrollment calls

vars == <<db, cache, readers, writer, hist, payload, master, metaCache, eproc, ehist, call>>
catalogVars == <<db, cache, readers, writer, hist, payload, call>>
masterVars == <<master, metaCache, eproc, ehist, call>>

(***************************************************************************)
(* Text                                                                    *)
(***************************************************************************)

\* The characters used by the model, in code-point order (Python compares
\* str values by code point).
Alphabet ==
    << " ", "+", "-", "0", "1", "2", "3", "4", "5", "6", "7", "8", "9", "@",
       "A", "B", "C", "D", "E", "F", "G", "H", "I", "J", "K", "L", "M",
       "N", "O", "P", "Q", "R", "S", "T", "U", "V", "W", "X", "Y", "Z", "_",
       "a", "b", "c", "d", "e", "f", "g", "h", "i", "j", "k", "l", "m",
       "n", "o", "p", "q", "r", "s", "t", "u", "v", "w", "x", "y", "z" >>

Char == {Alphabet[i] : i \in 1..Len(Alphabet)}

Ord == [c \in Char |-> CHOOSE i \in 1..Len(Alphabet) : Alphabet[i] = c]

UpperChars == {Alphabet[i] : i \in Ord["A"]..Ord["Z"]}
DigitChars == {Alphabet[i] : i \in Ord["0"]..Ord["9"]}

\* str.lower() on one character
LowerChar(c) == IF c \in UpperChars THEN Alphabet[Ord[c] + (Ord["a"] - Ord["A"])] ELSE c

\* str.lower()
Lower(s) == [i \in 1..Len(s) |-> LowerChar(s[i])]

\* str.strip(): leading and trailing blanks removed
Strip(s) ==
    LET keep == {i \in 1..Len(s) : s[i] # " "}
    IN  IF keep = {} THEN << >>
        ELSE LET lo == CHOOSE i \in keep : \A j \in keep : i <= j
                 hi == CHOOSE i \in keep : \A j \in keep : j <= i
             IN  SubSeq(s, lo, hi)

\* a < b for Python str
StrLess(a, b) ==
    LET n == IF Len(a) < Len(b) THEN Len(a) ELSE Len(b)
        diff == {i \in 1..n : a[i] # b[i]}
    IN  IF diff = {} THEN Len(a) < Len(b)
        ELSE LET i == CHOOSE k \in diff : \A j \in diff : k <= j
             IN  Ord[a[i]] < Ord[b[i]]

\* needle in hay
Contains(hay, needle) ==
    \E i \in 0..(Len(hay) - Len(needle)) : SubSeq(hay, i + 1, i + Len(needle)) = needle

\* sorted(S) for a set of str
RECURSIVE SortStrings(_)
SortStrings(S) ==
    IF S = {} THEN << >>
    ELSE LET m == CHOOSE x \in S : \A y \in S \ {x} : StrLess(x, y)
         IN  <<m>> \o SortStrings(S \ {m})

\* " ".join(parts)
RECURSIVE JoinSpace(_)
JoinSpace(parts) ==
    IF Len(parts) = 0 THEN << >>
    ELSE IF Len(parts) = 1 THEN parts[1]
    ELSE parts[1] \o <<" ">> \o JoinSpace(Tail(parts))

SeqRange(q) == {q[i] : i \in 1..Len(q)}

\* An ORDER BY key: text columns become their code points followed by a 0,
\* integer columns stay one number; tuples of columns are concatenated.
TextKey(s) == [i \in 1..(Len(s) + 1) |-> IF i <= Len(s) THEN Ord[s[i]] ELSE 0]
IntKey(n) == <<n>>

KeyLess(a, b) ==
    LET n == IF Len(a) < Len(b) THEN Len(a) ELSE Len(b)
        diff == {i \in 1..n : a[i] # b[i]}
    IN  IF diff = {} THEN Len(a) < Len(b)
        ELSE LET i == CHOOSE k \in diff : \A j \in diff : k <= j
             IN  a[i] < b[i]

\* rows of S in ascending order of key[row] (QuerySet.order_by)
RECURSIVE OrderBy(_, _)
OrderBy(S, key) ==
    IF S = {} THEN << >>
    ELSE LET m == CHOOSE x \in S : \A y \in S \ {x} : ~KeyLess(key[y], key[x])
         IN  <<m>> \o OrderBy(S \ {m}, key)

(***************************************************************************)
(* Catalog data model (catalog/models.py with the fields the builder and   *)
(* the publisher forms use)                                                *)
(***************************************************************************)

Null == 0   \* a NULL foreign key (row ids start at 1)

\* catalog.constants.LANGUAGES (codes only)
LANGUAGES == <<"en", "hi", "te", "ml", "mr", "kn", "ta", "bn">>
LANGUAGE_CODES == SeqRange(LANGUAGES)

\* Row constructors: one per model class.  Text columns other than the
\* flags and foreign keys are fixed per row id, so a "save" of an existing
\* id changes flags and references, not the identifying code.
TherapyArea(id, code, display_name, is_active) ==
    [id |-> id, code |-> code, display_name |-> display_name,
     description |-> << >>, is_active |-> is_active]

TriggerCluster(id, code, display_name, is_active) ==
    [id |-> id, code |-> code, display_name |-> display_name,
     description |-> << >>, language_code |-> "en", is_active |-> is_active]

Trigger(id, code, display_name, therapy_id, cluster_id, is_active) ==
    [id |-> id, code |-> code, display_name |-> display_name,
     primary_therapy_id |-> therapy_id, cluster_id |-> cluster_id,
     doctor_trigger_label |-> <<"P", "a", "i", "n">>,
     subtopic_title |-> <<"A", "c", "h", "e">>,
     search_keywords |-> << >>, is_active |-> is_active]

Video(id, code, primary_trigger_id, is_active, is_published) ==
    [id |-> id, code |-> code, description |-> << >>,
     search_keywords |-> <<"K", "w">>,
     primary_trigger_id |-> primary_trigger_id,
     is_active |-> is_active, is_published |-> is_published]

VideoLanguage(video_id, language_code, title) ==
    [video_id |-> video_id, language_code |-> language_code, title |-> title,
     youtube_url |-> <<"u", "r", "l">>]

VideoCluster(id, code, display_name, trigger_id, is_active, is_published) ==
    [id |-> id, code |-> code, display_name |-> display_name,
     description |-> << >>, search_keywords |-> << >>,
     trigger_id |-> trigger_id,
     is_active |-> is_active, is_published |-> is_published]

VideoClusterLanguage(video_cluster_id, language_code, name) ==
    [video_cluster_id |-> video_cluster_id, language_code |-> language_code,
     name |-> name]

VideoClusterVideo(video_cluster_id, video_id, sort_order) ==
    [video_cluster_id |-> video_cluster_id, video_id |-> video_id,
     sort_order |-> sort_order]

VideoTriggerMap(video_id, trigger_id) ==
    [video_id |-> video_id, trigger_id |-> trigger_id]

EmptyDb ==
    [therapy |-> {}, topic |-> {}, trigger |-> {}, video |-> {}, vlang |-> {},
     bundle |-> {}, blang |-> {}, vcv |-> {}, vtm |-> {}]

\* the row a foreign key points at
RowById(table, id) == CHOOSE r \in table : r.id = id

(***************************************************************************)
(* WhatsApp message prefixes (sharing/services.py)                         *)
(***************************************************************************)

YourDoctor == <<"y", "o", "u", "r", " ", "d", "o", "c", "t", "o", "r">>

\* the languages that have a template of their own; any other code uses "en"
TemplateLanguages == {"en", "hi", "mr", "te", "ta", "bn", "ml", "kn"}

\* A rendered prefix is the template that was used and the text put in its
\* {doctor} placeholder.
build_whatsapp_message_prefixes(doctor_name) ==
    LET doctor == IF Strip(doctor_name) = << >> THEN YourDoctor ELSE Strip(doctor_name)
    IN  [code \in LANGUAGE_CODES |->
            [template |-> IF code \in TemplateLanguages THEN code ELSE "en",
             doctor |-> doctor]]

(***************************************************************************)
(* Payload Builder (sharing/services.py, _build_catalog_payload)           *)
(***************************************************************************)

\* (an ordering by display_name alone)
NameOnlyKey(S) == [r \in S |-> TextKey(r.display_name)]

\* .order_by("display_name", "code")
NameCodeKey(S) == [r \in S |-> TextKey(r.display_name) \o TextKey(r.code)]

\* TherapyArea.objects.filter(is_active=True).order_by("display_name", "code")
ActiveTherapyAreas(d) ==
    LET S == {r \in d.therapy : r.is_active} IN OrderBy(S, NameCodeKey(S))

\* Trigger.objects.filter(is_active=True).order_by("display_name", "code")
ActiveTriggers(d) ==
    LET S == {r \in d.trigger : r.is_active} IN OrderBy(S, NameCodeKey(S))

\* TriggerCluster.objects.filter(is_active=True).order_by("display_name", "code")
ActiveTopics(d) ==
    LET S == {r \in d.topic : r.is_active} IN OrderBy(S, NameCodeKey(S))

\* VideoCluster.objects.filter(is_active=True).order_by("display_name", "code")
BundleFilter(b) == b.is_active
ActiveBundles(d) ==
    LET S == {r \in d.bundle : BundleFilter(r)} IN OrderBy(S, NameCodeKey(S))

\* (a queryset without the filter)
AllRows(v) == TRUE

\* Video.objects.filter(is_active=True).order_by("code")
VideoFilter(v) == v.is_active
ActiveVideos(d) ==
    LET S == {r \in d.video : VideoFilter(r)}
    IN  OrderBy(S, [r \in S |-> TextKey(r.code)])

\* VideoClusterVideo rows of the selected bundles,
\* .order_by("video_cluster_id", "sort_order", "video__code")
VcvRows(d) ==
    LET ids == {b.id : b \in SeqRange(ActiveBundles(d))}
        S == {r \in d.vcv : r.video_cluster_id \in ids}
    IN  OrderBy(S, [r \in S |-> IntKey(r.video_cluster_id) \o IntKey(r.sort_order)
                                  \o TextKey(RowById(d.video, r.video_id).code)])

\* bundle_names_by_code[code]: language -> name
BundleNames(d, b) ==
    LET rows == {r \in d.blang : r.video_cluster_id = b.id}
    IN  [l \in {r.language_code : r \in rows} |->
            (CHOOSE r \in rows : r.language_code = l).name]

\* bundle_display_names_by_code[code]
BundleDisplayName(b) ==
    IF Strip(b.display_name) = << >> THEN b.code ELSE Strip(b.display_name)

\* bundle_trigger_code_by_code[code]
BundleTriggerCode(d, b) == RowById(d.trigger, b.trigger_id).code

\* bundle_therapy_code_by_code[code]
BundleTherapyCode(d, b) ==
    RowById(d.therapy, RowById(d.trigger, b.trigger_id).primary_therapy_id).code

\* the sub-sequence of q whose elements satisfy the test set
RECURSIVE SelectIn(_, _)
SelectIn(q, keep) ==
    IF Len(q) = 0 THEN << >>
    ELSE (IF q[1] \in keep THEN <<q[1]>> ELSE << >>) \o SelectIn(Tail(q), keep)

\* bundle_video_codes_by_code[code]
BundleVideoCodes(d, b) ==
    LET rows == VcvRows(d)
        mine == SelectIn(rows, {r \in SeqRange(rows) : r.video_cluster_id = b.id})
    IN  [i \in 1..Len(mine) |-> RowById(d.video, mine[i].video_id).code]

\* bundle_search_text_by_code[code]
BundleSearchText(d, b) ==
    LET trig == RowById(d.trigger, b.trigger_id)
        active == {t \in d.therapy : t.is_active /\ t.id = trig.primary_therapy_id}
        names == BundleNames(d, b)
        parts ==
            {b.code, b.display_name, b.description, b.search_keywords}
            \cup {trig.code, trig.display_name, trig.doctor_trigger_label,
                  trig.subtopic_title, trig.search_keywords}
            \cup UNION {{t.code, t.display_name} : t \in active}
            \cup {names[l] : l \in DOMAIN names}
    IN  JoinSpace(SortStrings({Lower(Strip(p)) : p \in {q \in parts : Strip(q) # << >>}}))

BundleRecord(d, b) ==
    [code |-> b.code,
     display_name |-> BundleDisplayName(b),
     names |-> BundleNames(d, b),
     trigger_code |-> BundleTriggerCode(d, b),
     therapy_code |-> BundleTherapyCode(d, b),
     video_codes |-> BundleVideoCodes(d, b),
     search_text |-> BundleSearchText(d, b)]

\* titles_by_video_code[code] / url_by_video_code[code]: language -> text
VideoTitles(d, v) ==
    LET rows == {r \in d.vlang : r.video_id = v.id}
    IN  [l \in {r.language_code : r \in rows} |->
            (CHOOSE r \in rows : r.language_code = l).title]

VideoUrls(d, v) ==
    LET rows == {r \in d.vlang : r.video_id = v.id}
    IN  [l \in {r.language_code : r \in rows} |->
            (CHOOSE r \in rows : r.language_code = l).youtube_url]

\* (a builder that fills the missing "en" title with the empty string)
TitlesWithBlank(d, v) ==
    LET t == VideoTitles(d, v)
    IN  [l \in (DOMAIN t) \cup {"en"} |-> IF l \in DOMAIN t THEN t[l] ELSE << >>]

\* titles = dict(titles_by_video_code.get(code, {})); "en" falls back to the code
TitlesWithFallback(d, v) ==
    LET t == VideoTitles(d, v)
    IN  [l \in (DOMAIN t) \cup {"en"} |-> IF l \in DOMAIN t THEN t[l] ELSE v.code]

\* bundle_map[video code]: the selected bundles holding the video, in the
\* order of vcv_rows; each entry is the bundle row
VideoBundles(d, v) ==
    LET rows == VcvRows(d)
        mine == SelectIn(rows, {r \in SeqRange(rows) : r.video_id = v.id})
    IN  [i \in 1..Len(mine) |-> RowById(d.bundle, mine[i].video_cluster_id)]

\* trigger_codes_by_video[code]: derived from bundle membership
VideoTriggerCodes(d, v) ==
    LET bs == VideoBundles(d, v)
    IN  {BundleTriggerCode(d, bs[i]) : i \in 1..Len(bs)} \ {<< >>}

\* therapy_codes_by_video[code]: derived from bundle membership
VideoTherapyCodes(d, v) ==
    LET bs == VideoBundles(d, v)
    IN  {BundleTherapyCode(d, bs[i]) : i \in 1..Len(bs)} \ {<< >>}

\* the bundle-aware search terms one bundle adds to a video
BundleSearchParts(d, b) ==
    LET names == BundleNames(d, b)
    IN  {Lower(b.code), Lower(BundleDisplayName(b))}
        \cup {Lower(names[l]) : l \in DOMAIN names}
        \cup {Lower(BundleTriggerCode(d, b))}

\* search_parts of a video
VideoSearchParts(d, v) ==
    LET titles == TitlesWithFallback(d, v)
        bs == VideoBundles(d, v)
    IN  {v.code}
        \cup {Lower(titles[l]) : l \in DOMAIN titles}
        \cup {Lower(v.description), Lower(v.search_keywords)}
        \cup UNION {BundleSearchParts(d, bs[i]) : i \in 1..Len(bs)}

\* " ".join(sorted(set(p for p in search_parts if p)))
VideoSearchText(d, v) == JoinSpace(SortStrings(VideoSearchParts(d, v) \ {<< >>}))

VideoRecord(d, v) ==
    LET titles == TitlesWithFallback(d, v)
        bs == VideoBundles(d, v)
    IN  [id |-> v.code,
         display_name |-> IF titles["en"] # << >> THEN titles["en"] ELSE v.code,
         titles |-> titles,
         urls |-> VideoUrls(d, v),
         trigger_codes |-> SortStrings(VideoTriggerCodes(d, v)),
         therapy_codes |-> SortStrings(VideoTherapyCodes(d, v)),
         bundle_codes |-> [i \in 1..Len(bs) |-> bs[i].code],
         search_text |-> VideoSearchText(d, v)]

TherapyRecord(ta) ==
    [code |-> ta.code, display_name |-> ta.display_name, description |-> ta.description]

TriggerRecord(d, tr) ==
    [code |-> tr.code,
     display_name |-> tr.display_name,
     therapy_code |-> RowById(d.therapy, tr.primary_therapy_id).code,
     cluster_code |-> RowById(d.topic, tr.cluster_id).code,
     doctor_trigger_label |-> tr.doctor_trigger_label]

TopicRecord(tc) ==
    [code |-> tc.code, display_name |-> tc.display_name,
     description |-> tc.description, language_code |-> tc.language_code]

\* _build_catalog_payload()
BuildCatalogPayload(d) ==
    LET tas == ActiveTherapyAreas(d)
        trs == ActiveTriggers(d)
        tcs == ActiveTopics(d)
        bs == ActiveBundles(d)
        vs == ActiveVideos(d)
    IN  [therapy_areas |-> [i \in 1..Len(tas) |-> TherapyRecord(tas[i])],
         triggers |-> [i \in 1..Len(trs) |-> TriggerRecord(d, trs[i])],
         topics |-> [i \in 1..Len(tcs) |-> TopicRecord(tcs[i])],
         bundles |-> [i \in 1..Len(bs) |-> BundleRecord(d, bs[i])],
         videos |-> [i \in 1..Len(vs) |-> VideoRecord(d, vs[i])],
         message_prefixes |-> build_whatsapp_message_prefixes(YourDoctor)]

(***************************************************************************)
(* Catalog contents used by the model                                      *)
(***************************************************************************)

CARD == <<"C", "A", "R", "D">>
HEART == <<"H", "e", "a", "r", "t">>
ACUTE == <<"A", "C", "U", "T", "E">>
ACUTE_NAME == <<"A", "c", "u", "t", "e">>
CHEST == <<"C", "H", "E", "S", "T">>
CHEST_NAME == <<"C", "h", "e", "s", "t", " ", "p", "a", "i", "n">>
V1 == <<"V", "1">>
V1_TITLE == <<"P", "a", "i", "n", " ", "T", "a", "l", "k">>
B1 == <<"B", "1">>
B1_NAME == <<"S", "t", "a", "r", "t">>
B1_NAME_EN == <<"P", "a", "c", "k">>

\* A catalog with one row per model class; the flags say which rows exist
\* and how their boolean columns are set.
CatalogFlags ==
    {"ta_active", "tc_active", "tr_active", "v_active", "v_published",
     "b_active", "b_published", "in_bundle", "mapped", "primary", "titled"}

MkDb(f) ==
    [therapy |-> {TherapyArea(1, CARD, HEART, f["ta_active"])},
     topic |-> {TriggerCluster(1, ACUTE, ACUTE_NAME, f["tc_active"])},
     trigger |-> {Trigger(1, CHEST, CHEST_NAME, 1, 1, f["tr_active"])},
     video |-> {Video(1, V1, IF f["primary"] THEN 1 ELSE Null,
                      f["v_active"], f["v_published"])},
     vlang |-> IF f["titled"] THEN {VideoLanguage(1, "en", V1_TITLE)} ELSE {},
     bundle |-> {VideoCluster(1, B1, B1_NAME, 1, f["b_active"], f["b_published"])},
     blang |-> {VideoClusterLanguage(1, "en", B1_NAME_EN)},
     vcv |-> IF f["in_bundle"] THEN {VideoClusterVideo(1, 1, 0)} ELSE {},
     vtm |-> IF f["mapped"] THEN {VideoTriggerMap(1, 1)} ELSE {}]

\* the databases the builder is applied to directly
BuildDbs == {MkDb(f) : f \in [CatalogFlags -> BOOLEAN]} \cup {EmptyDb}

\* the catalog after the import: every row present, active and published
SeedDb == MkDb([n \in CatalogFlags |-> TRUE])

\* An optional value is a sequence of length 0 (None) or 1 (the value).
NoValue == << >>
Some(x) == <<x>>

(***************************************************************************)
(* Cache keys and signal registration                                      *)
(***************************************************************************)

\* sharing.services._CATALOG_CACHE_KEY
CATALOG_CACHE_KEY == "clinic_catalog_payload_v7"

\* settings.CATALOG_CACHE_SECONDS, and its default _CATALOG_CACHE_SECONDS
CATALOG_CACHE_SECONDS == 3600

\* catalog.signals.CATALOG_CACHE_KEYS
CATALOG_CACHE_KEYS == <<"clinic_catalog_payload_v5", "clinic_catalog_payload_v6">>

\* every version of the catalog key that appears in the code
AllCatalogKeys == SeqRange(CATALOG_CACHE_KEYS) \cup {CATALOG_CACHE_KEY}

\* the model classes of catalog/models.py
CatalogModels ==
    {"TherapyArea", "TriggerCluster", "Trigger", "Video", "VideoLanguage",
     "VideoCluster", "VideoClusterLanguage", "VideoClusterVideo", "VideoTriggerMap"}

\* the senders _on_catalog_change is connected to (post_save and post_delete)
SignalSenders ==
    {"TherapyArea", "TriggerCluster", "Trigger", "VideoCluster", "Video",
     "VideoClusterVideo", "VideoTriggerMap"}

\* a value an earlier release left under an old key
LegacyValue == Some(BuildCatalogPayload(EmptyDb))

(***************************************************************************)
(* Catalog writes: Model.save() and Model.delete() with on_delete rules    *)
(***************************************************************************)

TableOf(model) ==
    CASE model = "TherapyArea" -> "therapy"
      [] model = "TriggerCluster" -> "topic"
      [] model = "Trigger" -> "trigger"
      [] model = "Video" -> "video"
      [] model = "VideoLanguage" -> "vlang"
      [] model = "VideoCluster" -> "bundle"
      [] model = "VideoClusterLanguage" -> "blang"
      [] model = "VideoClusterVideo" -> "vcv"
      [] model = "VideoTriggerMap" -> "vtm"

\* two rows of one table that are the same database row (primary key or
\* unique_together)
SameRow(model, a, b) ==
    CASE model = "VideoLanguage" ->
            a.video_id = b.video_id /\ a.language_code = b.language_code
      [] model = "VideoClusterLanguage" ->
            a.video_cluster_id = b.video_cluster_id /\ a.language_code = b.language_code
      [] model = "VideoClusterVideo" ->
            a.video_cluster_id = b.video_cluster_id /\ a.video_id = b.video_id
      [] model = "VideoTriggerMap" ->
            a.video_id = b.video_id /\ a.trigger_id = b.trigger_id
      [] OTHER -> a.id = b.id

\* the rows a form or the import may save, given the rows that exist
\* (foreign keys must point at existing rows)
SaveCandidates(d) ==
    {[model |-> "TherapyArea", row |-> TherapyArea(1, CARD, HEART, a)] : a \in BOOLEAN}
    \cup {[model |-> "TriggerCluster", row |-> TriggerCluster(1, ACUTE, ACUTE_NAME, a)] :
            a \in BOOLEAN}
    \cup {[model |-> "Trigger", row |-> Trigger(1, CHEST, CHEST_NAME, ta.id, tc.id, a)] :
            ta \in d.therapy, tc \in d.topic, a \in BOOLEAN}
    \cup {[model |-> "Video", row |-> Video(1, V1, Null, a, TRUE)] : a \in BOOLEAN}
    \cup {[model |-> "VideoLanguage", row |-> VideoLanguage(v.id, "en", V1_TITLE)] :
            v \in d.video}
    \cup {[model |-> "VideoCluster", row |-> VideoCluster(1, B1, B1_NAME, t.id, a, TRUE)] :
            t \in d.trigger, a \in BOOLEAN}
    \cup {[model |-> "VideoClusterLanguage",
           row |-> VideoClusterLanguage(b.id, "en", B1_NAME_EN)] : b \in d.bundle}
    \cup {[model |-> "VideoClusterVideo", row |-> VideoClusterVideo(b.id, v.id, 0)] :
            b \in d.bundle, v \in d.video}
    \cup {[model |-> "VideoTriggerMap", row |-> VideoTriggerMap(v.id, t.id)] :
            v \in d.video, t \in d.trigger}

\* Model.save(): insert, or update the row with the same key
ApplySave(d, model, row) ==
    LET t == TableOf(model)
    IN  [d EXCEPT ![t] = {r \in @ : ~SameRow(model, r, row)} \cup {row}]

\* The rows Model.delete() removes: the row and everything that cascades
\* from it (on_delete=CASCADE), as a record of the rows gone per table.
Collected(d, model, row) ==
    LET bundles == CASE model = "VideoCluster" -> {row}
                     [] model = "Trigger" -> {b \in d.bundle : b.trigger_id = row.id}
                     [] OTHER -> {}
        videos == IF model = "Video" THEN {row} ELSE {}
        triggers == IF model = "Trigger" THEN {row} ELSE {}
        bids == {b.id : b \in bundles}
        vids == {v.id : v \in videos}
        tids == {t.id : t \in triggers}
    IN  [therapy |-> IF model = "TherapyArea" THEN {row} ELSE {},
         topic |-> IF model = "TriggerCluster" THEN {row} ELSE {},
         trigger |-> triggers,
         video |-> videos,
         vlang |-> IF model = "VideoLanguage" THEN {row}
                   ELSE {r \in d.vlang : r.video_id \in vids},
         bundle |-> bundles,
         blang |-> IF model = "VideoClusterLanguage" THEN {row}
                   ELSE {r \in d.blang : r.video_cluster_id \in bids},
         vcv |-> IF model = "VideoClusterVideo" THEN {row}
                 ELSE {r \in d.vcv : r.video_cluster_id \in bids \/ r.video_id \in vids},
         vtm |-> IF model = "VideoTriggerMap" THEN {row}
                 ELSE {r \in d.vtm : r.video_id \in vids \/ r.trigger_id \in tids}]

\* on_delete=PROTECT: a TherapyArea or TriggerCluster a Trigger points at
\* cannot be deleted
Protected(d, model, row) ==
    \/ model = "TherapyArea" /\ \E t \in d.trigger : t.primary_therapy_id = row.id
    \/ model = "TriggerCluster" /\ \E t \in d.trigger : t.cluster_id = row.id

\* Model.delete(): cascade, and SET_NULL on Video.primary_trigger
ApplyDelete(d, model, row) ==
    LET gone == Collected(d, model, row)
        left == [t \in DOMAIN d |-> d[t] \ gone[t]]
    IN  [left EXCEPT !.video =
            {IF model = "Trigger" /\ v.primary_trigger_id = row.id
             THEN [v EXCEPT !.primary_trigger_id = Null] ELSE v : v \in @}]

\* the senders of the post_save / post_delete signals one write sends, one
\* entry per instance
SignalsOfSave(model) == <<model>>

RECURSIVE Repeat(_, _)
Repeat(x, n) == IF n = 0 THEN << >> ELSE <<x>> \o Repeat(x, n - 1)

ModelOrder ==
    <<"VideoTriggerMap", "VideoClusterVideo", "VideoClusterLanguage", "VideoLanguage",
      "VideoCluster", "Video", "Trigger", "TriggerCluster", "TherapyArea">>

RECURSIVE SignalsFrom(_, _)
SignalsFrom(gone, i) ==
    IF i > Len(ModelOrder) THEN << >>
    ELSE Repeat(ModelOrder[i], Cardinality(gone[TableOf(ModelOrder[i])]))
         \o SignalsFrom(gone, i + 1)

SignalsOfDelete(d, model, row) == SignalsFrom(Collected(d, model, row), 1)

\* how many times _on_catalog_change runs for these signals
HandlerRuns(signals) ==
    Cardinality({i \in 1..Len(signals) : signals[i] \in SignalSenders})

(***************************************************************************)
(* Direct application of the builder                                       *)
(***************************************************************************)

IdleWriter == [pc |-> "idle", key |-> 1, pending |-> 0, raised |-> FALSE]
NoHist ==
    [writes |-> 0,          \* catalog writes so far
     reads |-> 0,           \* get_catalog_json_cached calls so far
     signalled |-> FALSE,   \* the last write ran _on_catalog_change
     failed |-> FALSE,      \* a cache.delete of the last invalidation raised
     quietWrite |-> FALSE,  \* no get_catalog call was in progress at the last write
     cleared |-> FALSE,     \* the step just taken completed an invalidation
     ttl |-> 0,             \* the timeout given to the last cache.set
     age |-> 0]             \* seconds gone by since the last cache.set

MasterIdle ==
    /\ master = [tables |-> {}, doctors |-> {}, campaign_doctor |-> {}, enrollment |-> {},
                 next_cd |-> 1, next_en |-> 1]
    /\ metaCache = NoValue
    /\ eproc = << >>
    /\ ehist = << >>
    /\ call = NoValue

CatalogIdle ==
    /\ call = NoValue
    /\ db = EmptyDb
    /\ cache = << >>
    /\ readers = << >>
    /\ writer = IdleWriter
    /\ hist = NoHist
    /\ payload = NoValue

BuildInit ==
    /\ db \in BuildDbs
    /\ cache = << >>
    /\ readers = << >>
    /\ writer = IdleWriter
    /\ hist = NoHist
    /\ payload = NoValue
    /\ MasterIdle

\* a caller runs _build_catalog_payload() on the current database
DoBuild ==
    /\ payload = NoValue
    /\ payload' = Some(BuildCatalogPayload(db))
    /\ UNCHANGED <<db, cache, readers, writer, hist>>
    /\ UNCHANGED masterVars

BuildNext == DoBuild

SpecBuild == BuildInit /\ [][BuildNext]_vars

(***************************************************************************)
(* Cache gateway, catalog writes and invalidation as concurrent workers    *)
(***************************************************************************)

MaxWrites == 1   \* catalog writes per behaviour
MaxReads == 2    \* get_catalog_json_cached calls per behaviour

Readers == {1, 2}   \* request workers serving the share page

\* pc, force and local are the call's position and locals; ret is what the
\* last call returned, and fresh says that the call began after the last
\* catalog write and its invalidation had completed
IdleReader ==
    [pc |-> "idle", force |-> FALSE, local |-> NoValue, ret |-> NoValue, fresh |-> FALSE]

Init ==
    /\ db = SeedDb
    /\ \E legacy \in {NoValue, LegacyValue} :
          cache = [k \in AllCatalogKeys |-> IF k = CATALOG_CACHE_KEY THEN NoValue ELSE legacy]
    /\ readers = [r \in Readers |-> IdleReader]
    /\ writer = IdleWriter
    /\ hist = NoHist
    /\ payload = NoValue
    /\ MasterIdle

\* (a gateway that takes every cached value for a miss)
NeverTruthy(v) == FALSE

\* `if cached:` -- None and empty containers are falsy
Truthy(v) == v # NoValue /\ v # Some(<< >>)

\* get_catalog_json_cached(force_refresh), up to the return on a cache hit
GetCatalogJsonCached(r, force) ==
    /\ readers[r].pc = "idle"
    /\ \A q \in Readers : q < r => readers[q].pc # "idle"   \* first free worker
    /\ hist.reads < MaxReads
    /\ LET cached == cache[CATALOG_CACHE_KEY]
           hit == ~force /\ Truthy(cached)
       IN  readers' = [readers EXCEPT ![r] =
               [pc |-> IF hit THEN "idle" ELSE "build",
                force |-> force,
                local |-> NoValue,
                ret |-> IF hit THEN cached ELSE NoValue,
                fresh |-> writer.pc = "idle"]]
    /\ hist' = [hist EXCEPT !.reads = @ + 1, !.cleared = FALSE]
    /\ UNCHANGED <<db, cache, writer, payload>>

\* a caller other than the share view starts get_catalog_json_cached
GetStart(r, force) ==
    /\ GetCatalogJsonCached(r, force)
    /\ UNCHANGED masterVars

\* payload = _build_catalog_payload()
Build(r) ==
    /\ readers[r].pc = "build"
    /\ readers' = [readers EXCEPT ![r].pc = "set",
                                  ![r].local = Some(BuildCatalogPayload(db))]
    /\ hist' = [hist EXCEPT !.cleared = FALSE]
    /\ UNCHANGED <<db, cache, writer, payload>>
    /\ UNCHANGED masterVars

\* (a gateway that returns the payload without storing it)
CacheSetSkipped(r) ==
    /\ readers[r].pc = "set"
    /\ readers' = [readers EXCEPT ![r].pc = "idle", ![r].ret = readers[r].local,
                                  ![r].local = NoValue]
    /\ hist' = [hist EXCEPT !.cleared = FALSE]
    /\ UNCHANGED <<db, cache, writer, payload>>
    /\ UNCHANGED masterVars

\* (a gateway that stores the payload under every versioned key)
CacheSetEveryKey(r) ==
    /\ readers[r].pc = "set"
    /\ cache' = [k \in AllCatalogKeys |-> readers[r].local]
    /\ readers' = [readers EXCEPT ![r].pc = "idle", ![r].ret = readers[r].local,
                                  ![r].local = NoValue]
    /\ hist' = [hist EXCEPT !.cleared = FALSE, !.ttl = CATALOG_CACHE_SECONDS, !.age = 0]
    /\ UNCHANGED <<db, writer, payload>>
    /\ UNCHANGED masterVars

\* (a gateway that stores the payload for twice the configured time)
CacheSetLonger(r) ==
    /\ readers[r].pc = "set"
    /\ cache' = [cache EXCEPT ![CATALOG_CACHE_KEY] = readers[r].local]
    /\ readers' = [readers EXCEPT ![r].pc = "idle", ![r].ret = readers[r].local,
                                  ![r].local = NoValue]
    /\ hist' = [hist EXCEPT !.cleared = FALSE, !.ttl = CATALOG_CACHE_SECONDS * 2, !.age = 0]
    /\ UNCHANGED <<db, writer, payload>>
    /\ UNCHANGED masterVars

\* cache.set(_CATALOG_CACHE_KEY, payload, cache_seconds); return payload
CacheSet(r) ==
    /\ readers[r].pc = "set"
    /\ cache' = [cache EXCEPT ![CATALOG_CACHE_KEY] = readers[r].local]
    /\ readers' = [readers EXCEPT ![r].pc = "idle", ![r].ret = readers[r].local,
                                  ![r].local = NoValue]
    /\ hist' = [hist EXCEPT !.cleared = FALSE, !.ttl = CATALOG_CACHE_SECONDS, !.age = 0]
    /\ UNCHANGED <<db, writer, payload>>
    /\ UNCHANGED masterVars

\* the worker's state once the database write is committed and its signals
\* are about to be handled
AfterWrite(signals) ==
    IF HandlerRuns(signals) > 0
    THEN [pc |-> "clear", key |-> 1, pending |-> HandlerRuns(signals), raised |-> FALSE]
    ELSE IdleWriter

WriteHist(signals) ==
    [hist EXCEPT !.writes = @ + 1,
                 !.signalled = HandlerRuns(signals) > 0,
                 !.failed = FALSE,
                 !.quietWrite = \A r \in Readers : readers[r].pc = "idle",
                 !.cleared = FALSE]

\* results returned before a write say nothing about the calls after it
Outdated == [r \in Readers |-> [readers[r] EXCEPT !.ret = NoValue, !.fresh = FALSE]]

\* a create or an update of one catalog row, followed by post_save
SaveRow(c) ==
    /\ writer.pc = "idle"
    /\ hist.writes < MaxWrites
    /\ c \in SaveCandidates(db)
    /\ db' = ApplySave(db, c.model, c.row)
    /\ writer' = AfterWrite(SignalsOfSave(c.model))
    /\ hist' = WriteHist(SignalsOfSave(c.model))
    /\ readers' = Outdated
    /\ UNCHANGED <<cache, payload>>
    /\ UNCHANGED masterVars

\* a delete of one catalog row, followed by post_delete for every row removed
DeleteRow(model, row) ==
    /\ writer.pc = "idle"
    /\ hist.writes < MaxWrites
    /\ row \in db[TableOf(model)]
    /\ ~Protected(db, model, row)
    /\ db' = ApplyDelete(db, model, row)
    /\ writer' = AfterWrite(SignalsOfDelete(db, model, row))
    /\ hist' = WriteHist(SignalsOfDelete(db, model, row))
    /\ readers' = Outdated
    /\ UNCHANGED <<cache, payload>>
    /\ UNCHANGED masterVars

\* clear_catalog_cache(): the loop moves to the next key, and after the last
\* key to the next pending handler run or back to the caller
NextKey(w) ==
    IF w.key < Len(CATALOG_CACHE_KEYS) THEN [w EXCEPT !.key = @ + 1]
    ELSE IF w.pending > 1 THEN [w EXCEPT !.key = 1, !.pending = @ - 1]
    ELSE [w EXCEPT !.pc = "idle", !.key = 1, !.pending = 0]

\* a handler without the try/except: the exception leaves the loop and
\* reaches the save()/delete() that sent the signal
OnDeleteErrorPropagates(w) ==
    [w EXCEPT !.pc = "idle", !.key = 1, !.pending = 0, !.raised = TRUE]

\* `except Exception: pass` around cache.delete(key)
OnDeleteError(w) == NextKey(w)

ClearHist(ok, w) ==
    [hist EXCEPT !.failed = @ \/ ~ok, !.cleared = (w.pc = "idle")]

\* cache.delete(key) succeeds
ClearKey ==
    /\ writer.pc = "clear"
    /\ LET k == CATALOG_CACHE_KEYS[writer.key]
       IN  /\ cache' = [cache EXCEPT ![k] = NoValue]
           /\ writer' = NextKey(writer)
           /\ hist' = ClearHist(TRUE, writer')
    /\ UNCHANGED <<db, readers, payload>>
    /\ UNCHANGED masterVars

\* cache.delete(key) raises (cache backend unreachable)
ClearKeyFails ==
    /\ writer.pc = "clear"
    /\ writer' = OnDeleteError(writer)
    /\ hist' = ClearHist(FALSE, writer')
    /\ UNCHANGED <<db, cache, readers, payload>>
    /\ UNCHANGED masterVars

Next ==
    \/ \E r \in Readers, force \in BOOLEAN : GetStart(r, force)
    \/ \E r \in Readers : Build(r)
    \/ \E r \in Readers : CacheSet(r)
    \/ \E c \in SaveCandidates(db) : SaveRow(c)
    \/ \E model \in CatalogModels : \E row \in db[TableOf(model)] : DeleteRow(model, row)
    \/ ClearKey
    \/ ClearKeyFails

Spec == Init /\ [][Next]_vars

(***************************************************************************)
(* Writes and invalidation alone (no request in progress)                  *)
(***************************************************************************)

InvalInit ==
    /\ db = SeedDb
    /\ \E legacy \in {NoValue, LegacyValue}, current \in {NoValue, Some(BuildCatalogPayload(SeedDb))} :
          cache = [k \in AllCatalogKeys |-> IF k = CATALOG_CACHE_KEY THEN current ELSE legacy]
    /\ readers = [r \in Readers |-> IdleReader]
    /\ writer = IdleWriter
    /\ hist = NoHist
    /\ payload = NoValue
    /\ MasterIdle

InvalNext ==
    \/ \E c \in SaveCandidates(db) : SaveRow(c)
    \/ \E model \in CatalogModels : \E row \in db[TableOf(model)] : DeleteRow(model, row)
    \/ ClearKey
    \/ ClearKeyFails

SpecInval == InvalInit /\ [][InvalNext]_vars

(***************************************************************************)
(* The builder run twice on catalogs with several rows per table           *)
(***************************************************************************)

Second(code) == code \o <<"2">>

\* A catalog with two rows per model class; the flags say whether the second
\* rows share the display_name of the first, whether the rows of a bundle
\* share their sort_order, and which second rows are active.
OrderFlags == {"same_name", "same_sort", "ta2_active", "tr2_active", "b2_active", "v2_active"}

MkDb2(f) ==
    [therapy |-> {TherapyArea(1, CARD, HEART, TRUE),
                  TherapyArea(2, Second(CARD), IF f["same_name"] THEN HEART ELSE Second(HEART),
                              f["ta2_active"])},
     topic |-> {TriggerCluster(1, ACUTE, ACUTE_NAME, TRUE),
                TriggerCluster(2, Second(ACUTE),
                               IF f["same_name"] THEN ACUTE_NAME ELSE Second(ACUTE_NAME), TRUE)},
     trigger |-> {Trigger(1, CHEST, CHEST_NAME, 1, 1, TRUE),
                  Trigger(2, Second(CHEST),
                          IF f["same_name"] THEN CHEST_NAME ELSE Second(CHEST_NAME),
                          2, 2, f["tr2_active"])},
     video |-> {Video(1, V1, 1, TRUE, TRUE), Video(2, Second(V1), Null, f["v2_active"], TRUE)},
     vlang |-> {VideoLanguage(1, "en", V1_TITLE), VideoLanguage(1, "hi", Second(V1_TITLE)),
                VideoLanguage(2, "hi", V1_TITLE)},
     bundle |-> {VideoCluster(1, B1, B1_NAME, 1, TRUE, TRUE),
                 VideoCluster(2, Second(B1), IF f["same_name"] THEN B1_NAME ELSE Second(B1_NAME),
                              2, f["b2_active"], TRUE)},
     blang |-> {VideoClusterLanguage(1, "en", B1_NAME_EN), VideoClusterLanguage(1, "hi", B1_NAME),
                VideoClusterLanguage(2, "en", B1_NAME_EN)},
     vcv |-> {VideoClusterVideo(1, 1, 1),
              VideoClusterVideo(1, 2, IF f["same_sort"] THEN 1 ELSE 0),
              VideoClusterVideo(2, 1, 0), VideoClusterVideo(2, 2, 0)},
     vtm |-> {VideoTriggerMap(1, 2)}]

RebuildDbs == {MkDb2(f) : f \in [OrderFlags -> BOOLEAN]}

RebuildInit ==
    /\ db \in RebuildDbs
    /\ cache = << >>
    /\ readers = << >>
    /\ writer = IdleWriter
    /\ hist = NoHist
    /\ payload = NoValue
    /\ MasterIdle

\* a second _build_catalog_payload() with no write since the first; payload
\* keeps both results
Rebuild ==
    /\ Len(payload) = 1
    /\ payload' = Append(payload, BuildCatalogPayload(db))
    /\ UNCHANGED <<db, cache, readers, writer, hist>>
    /\ UNCHANGED masterVars

RebuildNext == DoBuild \/ Rebuild

SpecRebuild == RebuildInit /\ [][RebuildNext]_vars

(***************************************************************************)
(* The cache gateway alone, over whatever the cache key may hold           *)
(***************************************************************************)

\* a Python str held in the cache is the record of its text; this one is no
\* serialized payload
LegacyString == [str |-> <<"n", "o", "t", " ", "j", "s", "o", "n">>]

\* isinstance(v, dict)
IsMapping(v) == "str" \notin DOMAIN v

\* what clinic_catalog_payload_v7 may hold when a request arrives: nothing,
\* the payload of an earlier catalog, or a string left by an earlier release
GatewayCacheValues == {NoValue, Some(BuildCatalogPayload(EmptyDb)), Some(LegacyString)}

GatewayDbs == {SeedDb, EmptyDb, MkDb([f \in CatalogFlags |-> f # "v_active"])}

GatewayInit ==
    /\ db \in GatewayDbs
    /\ \E v \in GatewayCacheValues :
          cache = [k \in AllCatalogKeys |-> IF k = CATALOG_CACHE_KEY THEN v ELSE NoValue]
    /\ readers = [r \in Readers |-> IdleReader]
    /\ writer = IdleWriter
    /\ hist = NoHist
    /\ payload = NoValue
    /\ MasterIdle

GatewayNext ==
    \/ \E r \in Readers, force \in BOOLEAN : GetStart(r, force)
    \/ \E r \in Readers : Build(r)
    \/ \E r \in Readers : CacheSet(r)

SpecGateway == GatewayInit /\ [][GatewayNext]_vars

(***************************************************************************)
(* The share page (sharing/views.py, doctor_share)                         *)
(***************************************************************************)

\* doctor.full_name of the doctors that open their share page
DoctorNames == { <<"A", "s", "h", "a">>, <<" ", "R", "a", "v", "i">>, << >>, <<" ">> }

Forbidden == [status |-> 403]   \* HttpResponseForbidden("Not allowed")

\* a worker's doctor_share request: the doctor's full_name while the request
\* is being served, and the response
IdleView == [pc |-> "idle", full_name |-> << >>, out |-> NoValue]

\* (a view that passes the catalog on as the gateway returned it)
PassOn(catalog_json, full_name) == catalog_json

\* {**catalog_json, "message_prefixes": build_whatsapp_message_prefixes(doctor.full_name)}
OverridePrefixes(catalog_json, full_name) ==
    [k \in (DOMAIN catalog_json) \cup {"message_prefixes"} |->
        IF k = "message_prefixes" THEN build_whatsapp_message_prefixes(full_name)
        ELSE catalog_json[k]]

ShareDbs == {SeedDb, EmptyDb}
ShareCacheValues == {NoValue, Some(BuildCatalogPayload(EmptyDb))}

ShareInit ==
    /\ db \in ShareDbs
    /\ \E v \in ShareCacheValues :
          cache = [k \in AllCatalogKeys |-> IF k = CATALOG_CACHE_KEY THEN v ELSE NoValue]
    /\ readers = [r \in Readers |-> IdleReader]
    /\ writer = IdleWriter
    /\ hist = NoHist
    /\ payload = NoValue
    /\ master = [tables |-> {}, doctors |-> {}, campaign_doctor |-> {}, enrollment |-> {},
                 next_cd |-> 1, next_en |-> 1]
    /\ metaCache = NoValue
    /\ eproc = << >>
    /\ ehist = << >>
    /\ call = [r \in Readers |-> IdleView]

\* doctor_share up to its call of get_catalog_json_cached(force_refresh=True);
\* a request of somebody who is not the doctor of the page is refused
ShareStart(r, full_name, allowed) ==
    /\ call[r].pc = "idle"
    /\ IF allowed
       THEN /\ GetCatalogJsonCached(r, TRUE)
            /\ call' = [call EXCEPT ![r] = [pc |-> "catalog", full_name |-> full_name,
                                            out |-> NoValue]]
       ELSE /\ readers[r].pc = "idle"
            /\ \A q \in Readers : q < r => readers[q].pc # "idle"
            /\ hist.reads < MaxReads
            /\ call' = [call EXCEPT ![r] = [pc |-> "idle", full_name |-> full_name,
                                            out |-> Some(Forbidden)]]
            /\ UNCHANGED <<db, cache, readers, writer, hist, payload>>
    /\ UNCHANGED <<master, metaCache, eproc, ehist>>

\* the rest of doctor_share once the gateway has returned: the override of
\* message_prefixes and the render
ShareRender(r) ==
    /\ call[r].pc = "catalog"
    /\ readers[r].pc = "idle"
    /\ call' = [call EXCEPT ![r].pc = "idle",
                            ![r].out = Some(OverridePrefixes(readers[r].ret[1],
                                                             call[r].full_name))]
    /\ UNCHANGED <<db, cache, readers, writer, hist, payload, master, metaCache, eproc, ehist>>

ShareNext ==
    \/ \E r \in Readers, n \in DoctorNames, allowed \in BOOLEAN : ShareStart(r, n, allowed)
    \/ \E r \in Readers : Build(r)
    \/ \E r \in Readers : CacheSet(r)
    \/ \E r \in Readers : ShareRender(r)

SpecShare == ShareInit /\ [][ShareNext]_vars

(***************************************************************************)
(* The cache gateway over time: the cache backend drops an entry once its  *)
(* timeout has elapsed                                                     *)
(***************************************************************************)

\* the clock advances in steps of a third of the configured timeout, up to
\* twice the timeout after the last store
TickSeconds == CATALOG_CACHE_SECONDS \div 3
MaxAge == CATALOG_CACHE_SECONDS * 2

\* the catalog changes and no invalidation follows; the cache entry, if
\* there is one, was stored by the gateway just before
ExpiryInit ==
    /\ db \in {SeedDb, MkDb([f \in CatalogFlags |-> f # "v_active"])}
    /\ \E v \in {NoValue, Some(BuildCatalogPayload(EmptyDb))} :
          cache = [k \in AllCatalogKeys |-> IF k = CATALOG_CACHE_KEY THEN v ELSE NoValue]
    /\ readers = [r \in Readers |-> IdleReader]
    /\ writer = IdleWriter
    /\ hist = [NoHist EXCEPT !.ttl = CATALOG_CACHE_SECONDS]
    /\ payload = NoValue
    /\ MasterIdle

\* time goes by; an entry whose timeout has elapsed is gone from the cache
\* (cache.get returns None for it)
Tick ==
    /\ hist.age < MaxAge
    /\ LET age == hist.age + TickSeconds
       IN  /\ hist' = [hist EXCEPT !.age = age, !.cleared = FALSE]
           /\ cache' = IF age >= hist.ttl
                       THEN [cache EXCEPT ![CATALOG_CACHE_KEY] = NoValue]
                       ELSE cache
    /\ UNCHANGED <<db, readers, writer, payload>>
    /\ UNCHANGED masterVars

ExpiryNext ==
    \/ \E r \in Readers, force \in BOOLEAN : GetStart(r, force)
    \/ \E r \in Readers : Build(r)
    \/ \E r \in Readers : CacheSet(r)
    \/ Tick

SpecExpiry == ExpiryInit /\ [][ExpiryNext]_vars

(***************************************************************************)
(* VideoLanguage._extract_youtube_id (catalog/models.py)                   *)
(***************************************************************************)

LowerChars == {Alphabet[i] : i \in Ord["a"]..Ord["z"]}

\* the character class [A-Za-z0-9_-]
IdChars == UpperChars \cup LowerChars \cup DigitChars \cup {"_", "-"}

YT_ID_LENGTH == 11

\* _YT_ID_RE.match(s) for ^[A-Za-z0-9_-]{11}$ : in Python, $ matches at the
\* end of the string and also just before a newline that ends the string
MatchesYtId(s) ==
    /\ Len(s) >= YT_ID_LENGTH
    /\ \A i \in 1..YT_ID_LENGTH : s[i] \in IdChars
    /\ \/ Len(s) = YT_ID_LENGTH
       \/ Len(s) = YT_ID_LENGTH + 1 /\ s[Len(s)] = "\n"

\* the first position of s holding a character of C, or Len(s) + 1
FirstIn(s, C) ==
    LET at == {i \in 1..Len(s) : s[i] \in C}
    IN  IF at = {} THEN Len(s) + 1 ELSE CHOOSE i \in at : \A j \in at : i <= j

\* s[i:] for a 1-based i
From(s, i) == SubSeq(s, i, Len(s))

\* s.split(ch)
RECURSIVE Split(_, _)
Split(s, ch) ==
    LET i == FirstIn(s, {ch})
    IN  IF i > Len(s) THEN <<s>> ELSE <<SubSeq(s, 1, i - 1)>> \o Split(From(s, i + 1), ch)

\* s.strip("/")
StripSlash(s) ==
    LET keep == {i \in 1..Len(s) : s[i] # "/"}
    IN  IF keep = {} THEN << >>
        ELSE SubSeq(s, CHOOSE i \in keep : \A j \in keep : i <= j,
                       CHOOSE i \in keep : \A j \in keep : j <= i)

StartsWith(s, prefix) == Len(s) >= Len(prefix) /\ SubSeq(s, 1, Len(prefix)) = prefix
EndsWith(s, suffix) ==
    Len(s) >= Len(suffix) /\ SubSeq(s, Len(s) - Len(suffix) + 1, Len(s)) = suffix

\* urllib.parse.urlparse: the scheme before the first ":" (letters, digits,
\* "+", "-", "." after a first letter), the netloc after "//" up to the next
\* "/", "?" or "#", then the fragment after "#" and the query after "?" are
\* cut off and the rest is the path; a netloc with one square bracket only
\* raises ValueError (ok = FALSE)
UrlParse(url) ==
    LET colon == FirstIn(url, {":"})
        has_scheme == /\ 1 < colon /\ colon <= Len(url)
                      /\ url[1] \in UpperChars \cup LowerChars
                      /\ \A i \in 1..(colon - 1) :
                            url[i] \in UpperChars \cup LowerChars \cup DigitChars
                                       \cup {"+", "-", "."}
        rest == IF has_scheme THEN From(url, colon + 1) ELSE url
        has_netloc == StartsWith(rest, <<"/", "/">>)
        after == IF has_netloc THEN From(rest, 3) ELSE rest
        cut == IF has_netloc THEN FirstIn(after, {"/", "?", "#"}) ELSE 1
        netloc == IF has_netloc THEN SubSeq(after, 1, cut - 1) ELSE << >>
        tail == From(after, cut)
        nofrag == SubSeq(tail, 1, FirstIn(tail, {"#"}) - 1)
        q == FirstIn(nofrag, {"?"})
    IN  [ok |-> (FirstIn(netloc, {"["}) <= Len(netloc)) = (FirstIn(netloc, {"]"}) <= Len(netloc)),
         netloc |-> netloc,
         path |-> SubSeq(nofrag, 1, q - 1),
         query |-> From(nofrag, q + 1)]

\* urllib.parse.unquote on the text of a query field: "+" has become a blank
\* and %0A, %2D are decoded (the escapes that occur in the model's URLs)
RECURSIVE Unquote(_)
Unquote(s) ==
    IF s = << >> THEN << >>
    ELSE IF s[1] = "%" /\ Len(s) >= 3 /\ SubSeq(s, 2, 3) = <<"0", "A">>
    THEN <<"\n">> \o Unquote(From(s, 4))
    ELSE IF s[1] = "%" /\ Len(s) >= 3 /\ SubSeq(s, 2, 3) = <<"2", "D">>
    THEN <<"-">> \o Unquote(From(s, 4))
    ELSE <<IF s[1] = "+" THEN " " ELSE s[1]>> \o Unquote(Tail(s))

\* (parse_qs(query).get(name) or [""])[0]: the fields are separated by "&";
\* a field without "=" or with an empty value is dropped
QueryFirst(query, name) ==
    LET fields == Split(query, "&")
        hits == {i \in 1..Len(fields) :
                    LET eq == FirstIn(fields[i], {"="})
                    IN  /\ eq <= Len(fields[i])
                        /\ eq < Len(fields[i])
                        /\ Unquote(SubSeq(fields[i], 1, eq - 1)) = name}
    IN  IF hits = {} THEN << >>
        ELSE LET i == CHOOSE k \in hits : \A j \in hits : k <= j
             IN  Unquote(From(fields[i], FirstIn(fields[i], {"="}) + 1))

WATCH == <<"w", "a", "t", "c", "h">>
EMBED == <<"e", "m", "b", "e", "d", "/">>
SHORTS == <<"s", "h", "o", "r", "t", "s", "/">>
YOUTU_BE == <<"y", "o", "u", "t", "u", ".", "b", "e">>
YOUTUBE == <<"y", "o", "u", "t", "u", "b", "e">>

\* VideoLanguage._extract_youtube_id(url)
ExtractYoutubeId(raw) ==
    LET url == Strip(raw)
        p == UrlParse(url)
        host == Lower(p.netloc)
        path == StripSlash(p.path)
        parts == Split(path, "/")
        vid == IF EndsWith(host, YOUTU_BE) THEN (IF path # << >> THEN parts[1] ELSE << >>)
               ELSE IF Contains(host, YOUTUBE)
               THEN IF path = WATCH THEN QueryFirst(p.query, <<"v">>)
                    ELSE IF StartsWith(path, EMBED) \/ StartsWith(path, SHORTS)
                    THEN (IF Len(parts) > 1 THEN parts[2] ELSE << >>)
                    ELSE << >>
               ELSE << >>
    IN  IF url = << >> THEN << >>
        ELSE IF MatchesYtId(url) THEN url
        ELSE IF ~p.ok THEN << >>
        ELSE IF MatchesYtId(vid) THEN vid ELSE << >>

\* the URLs of the model
HTTPS == <<"h", "t", "t", "p", "s", ":", "/", "/">>
WWW_YOUTUBE_COM == <<"w", "w", "w", ".", "y", "o", "u", "t", "u", "b", "e", ".", "c", "o", "m">>
VIDEO_ID == <<"a", "b", "c", "D", "E", "F", "1", "2", "3", "4", "5">>
NOT_A_URL == <<"n", "o", "t", "-", "a", "-", "u", "r", "l">>

\* the supported shapes around an id
SupportedUrls(id) ==
    { id,
      HTTPS \o YOUTU_BE \o <<"/">> \o id,
      HTTPS \o WWW_YOUTUBE_COM \o <<"/">> \o WATCH \o <<"?", "v", "=">> \o id,
      HTTPS \o WWW_YOUTUBE_COM \o <<"/">> \o EMBED \o id,
      HTTPS \o WWW_YOUTUBE_COM \o <<"/">> \o SHORTS \o id }

\* what stands in the place of the id: ids, a short id, an id followed by an
\* escaped newline, an id with a character outside the class
IdTexts ==
    { VIDEO_ID, <<"a", "_", "c", "-", "E", "F", "1", "2", "3", "4", "5">>, <<"a", "b", "c">>,
      VIDEO_ID \o <<"%", "0", "A">>, <<"a", "b", "c", "+", "E", "F", "1", "2", "3", "4", "5">> }

YoutubeUrls ==
    LET schemes == {HTTPS, <<"h", "t", "t", "p", ":", "/", "/">>, << >>}
        hosts == {YOUTU_BE, WWW_YOUTUBE_COM, <<"M", ".", "Y", "o", "u", "T", "u", "b", "e", ".", "c", "o", "m">>, <<"v", "i", "m", "e", "o", ".", "c", "o", "m">>, <<"[">>}
        shapes(id) == { <<"/">> \o id,
                        <<"/">> \o WATCH \o <<"?", "v", "=">> \o id,
                        <<"/">> \o WATCH \o <<"?", "t", "=", "1", "&", "v", "=">> \o id \o <<"#", "x">>,
                        <<"/">> \o EMBED \o id \o <<"/">>,
                        <<"/">> \o SHORTS \o id \o <<"?", "x">> }
    IN  {s \o h \o t : s \in schemes, h \in hosts, t \in UNION {shapes(id) : id \in IdTexts}}
        \cup UNION {SupportedUrls(id) : id \in IdTexts}
        \cup {NOT_A_URL, << >>, <<" ">> \o VIDEO_ID \o <<" ">>}

YoutubeInit ==
    /\ \E url \in YoutubeUrls :
          call = [fn |-> "_extract_youtube_id", arg |-> url, out |-> NoValue]
    /\ db = EmptyDb
    /\ cache = << >>
    /\ readers = << >>
    /\ writer = IdleWriter
    /\ hist = NoHist
    /\ payload = NoValue
    /\ master = [tables |-> {}, doctors |-> {}, campaign_doctor |-> {}, enrollment |-> {},
                 next_cd |-> 1, next_en |-> 1]
    /\ metaCache = NoValue
    /\ eproc = << >>
    /\ ehist = << >>

\* a caller (youtube_embed_url) applies the extraction to a stored youtube_url
ExtractId ==
    /\ call.out = NoValue
    /\ call' = [call EXCEPT !.out = Some(ExtractYoutubeId(call.arg))]
    /\ UNCHANGED <<db, cache, readers, writer, hist, payload, master, metaCache, eproc, ehist>>

YoutubeNext == ExtractId

SpecYoutube == YoutubeInit /\ [][YoutubeNext]_vars

(***************************************************************************)
(* Master-DB bridge (accounts/master_db.py): schema helpers                *)
(***************************************************************************)

IsDigit(c) == c \in DigitChars
NotDash(c) == c # "-"

\* re.sub(r"\D", "", s)
Digits(s) == SelectSeq(s, IsDigit)

\* the last 10 characters: phone_n[-10:] if len(phone_n) > 10 else phone_n,
\* and MySQL RIGHT(phone, 10)
PHONE_DIGITS == 10
Last10(s) == IF Len(s) > PHONE_DIGITS THEN SubSeq(s, Len(s) - PHONE_DIGITS + 1, Len(s)) ELSE s

\* _normalize_uuid_for_mysql
NormalizeUuid(raw) == SelectSeq(Strip(raw), NotDash)

\* table names of the master schema
T_ENROLL ==
    <<"c", "a", "m", "p", "a", "i", "g", "n", "_", "d", "o", "c", "t", "o", "r",
      "c", "a", "m", "p", "a", "i", "g", "n", "e", "n", "r", "o", "l", "l", "m", "e", "n", "t">>
T_ENROLL_LEGACY ==
    <<"d", "o", "c", "t", "o", "r", "_", "c", "a", "m", "p", "a", "i", "g", "n", "_",
      "e", "n", "r", "o", "l", "l", "m", "e", "n", "t">>
T_CAMPAIGN_DOCTOR ==
    <<"c", "a", "m", "p", "a", "i", "g", "n", "_", "d", "o", "c", "t", "o", "r">>

\* the LIKE patterns of _get_enrollment_meta, without their % signs
EnrollmentPatterns ==
    << <<"d", "o", "c", "t", "o", "r", "c", "a", "m", "p", "a", "i", "g", "n",
         "e", "n", "r", "o", "l", "l", "m", "e", "n", "t">>,
       <<"d", "o", "c", "t", "o", "r", "_", "c", "a", "m", "p", "a", "i", "g", "n", "_",
         "e", "n", "r", "o", "l", "l", "m", "e", "n", "t">>,
       <<"c", "a", "m", "p", "a", "i", "g", "n", "e", "n", "r", "o", "l", "l", "m", "e", "n", "t">>,
       <<"e", "n", "r", "o", "l", "m", "e", "n", "t">> >>

\* _table_exists
TableExists(tables, name) == \E t \in tables : t.name = name

TableNamed(tables, name) == CHOOSE t \in tables : t.name = name

\* _get_table_columns: the column names, none for a table that is not there
TableColumns(tables, name) ==
    IF TableExists(tables, name) THEN DOMAIN TableNamed(tables, name).cols ELSE {}

\* _get_column_data_type: "" when the table or the column is not there
ColumnDataType(tables, name, col) ==
    IF col \in TableColumns(tables, name) THEN TableNamed(tables, name).cols[col] ELSE ""

\* _find_table_by_patterns: for the first pattern that matches a table, the
\* match with the shortest, then smallest, name; NoValue when none matches
RECURSIVE FindTableByPatterns(_, _, _)
FindTableByPatterns(tables, patterns, i) ==
    IF i > Len(patterns) THEN NoValue
    ELSE LET hits == {t.name : t \in {u \in tables : Contains(Lower(u.name), Lower(patterns[i]))}}
         IN  IF hits = {} THEN FindTableByPatterns(tables, patterns, i + 1)
             ELSE Some(CHOOSE n \in hits : \A m \in hits \ {n} :
                          Len(n) < Len(m) \/ (Len(n) = Len(m) /\ StrLess(n, m)))

\* _pick_first_column (the schema's column names are lower-case)
RECURSIVE PickFirstColumn(_, _, _)
PickFirstColumn(cols, candidates, i) ==
    IF i > Len(candidates) THEN ""
    ELSE IF candidates[i] \in cols THEN candidates[i]
    ELSE PickFirstColumn(cols, candidates, i + 1)

\* _is_numeric_mysql_type
IsNumericMysqlType(dt) ==
    dt \in {"tinyint", "smallint", "mediumint", "int", "integer", "bigint",
            "decimal", "numeric", "float", "double"}

\* _get_enrollment_meta without the cache: the discovered names, or NoValue
\* where the function raises RuntimeError
Discover(tables) ==
    LET found == FindTableByPatterns(tables, EnrollmentPatterns, 1)
    IN  IF found = NoValue THEN NoValue
        ELSE LET cols == DOMAIN TableNamed(tables, found[1]).cols
                 campaign_col == PickFirstColumn(cols, <<"campaign_id", "campaign", "campaign_uuid">>, 1)
                 doctor_col == PickFirstColumn(cols, <<"doctor_id", "doctor", "doctor_uuid">>, 1)
                 registered_by_col ==
                     PickFirstColumn(cols, <<"registered_by_id", "registered_by",
                                            "field_rep_id", "fieldrep_id">>, 1)
             IN  IF cols = {} \/ campaign_col = "" \/ doctor_col = "" THEN NoValue
                 ELSE Some([table |-> found[1], campaign_col |-> campaign_col,
                            doctor_col |-> doctor_col,
                            registered_by_col |-> registered_by_col])

\* (a bridge that runs the discovery on every call)
DiscoverAgain(cached, tables) == Discover(tables)

\* _get_enrollment_meta: the cached value when there is one
GetEnrollmentMeta(cached, tables) == IF cached # NoValue THEN cached ELSE Discover(tables)

(***************************************************************************)
(* Master-DB contents used by the model                                    *)
(***************************************************************************)

EnrollTableNumeric ==
    [name |-> T_ENROLL,
     cols |-> [id |-> "bigint", doctor_id |-> "bigint", campaign_id |-> "char",
               whitelabel_enabled |-> "tinyint", whitelabel_subdomain |-> "varchar",
               registered_at |-> "datetime", registered_by_id |-> "bigint"]]

EnrollTableString ==
    [name |-> T_ENROLL_LEGACY,
     cols |-> [id |-> "bigint", doctor_id |-> "varchar", campaign_id |-> "char",
               active |-> "tinyint"]]

CampaignDoctorTable ==
    [name |-> T_CAMPAIGN_DOCTOR,
     cols |-> [id |-> "bigint", full_name |-> "varchar", email |-> "varchar",
               phone |-> "varchar", city |-> "varchar", state |-> "varchar",
               created_at |-> "datetime"]]

\* a campaign_doctor table of another shape: the bridge's SELECT and INSERT
\* on it raise
CampaignDoctorOther == [name |-> T_CAMPAIGN_DOCTOR, cols |-> [id |-> "bigint", name |-> "varchar"]]

\* a campaign_doctor table the SELECT works on and the INSERT does not
CampaignDoctorNarrow ==
    [name |-> T_CAMPAIGN_DOCTOR,
     cols |-> [id |-> "bigint", email |-> "varchar", phone |-> "varchar"]]

\* tables whose name matches a pattern and that lack the doctor or the
\* campaign column
EnrollTableNoDoctor ==
    [name |-> T_ENROLL_LEGACY, cols |-> [id |-> "bigint", campaign_id |-> "char"]]
EnrollTableNoCampaign ==
    [name |-> T_ENROLL_LEGACY, cols |-> [id |-> "bigint", doctor_id |-> "bigint"]]

\* the master schemas a deployment may have
MasterSchemas ==
    { {EnrollTableNumeric, CampaignDoctorTable},
      {EnrollTableNumeric, CampaignDoctorOther},
      {EnrollTableNumeric, CampaignDoctorNarrow},
      {EnrollTableString},
      {CampaignDoctorTable},
      {EnrollTableNoDoctor, CampaignDoctorTable},
      {EnrollTableNoCampaign, CampaignDoctorTable} }

\* campaign_doctor rows another application of the master database may have
\* written for doctor DR1 before the first call
FIRST_FREE_ID == 6
CampaignDoctorSeeds ==
    { {},
      {[id |-> FIRST_FREE_ID - 1, email |-> <<"A", "@", "X">>, phone |-> << >>]},
      {[id |-> FIRST_FREE_ID - 2, email |-> << >>,
        phone |-> <<"0", "9", "8", "7", "6", "5", "4", "3", "2", "1", "0">>],
       [id |-> FIRST_FREE_ID - 1, email |-> <<"b", "@", "x">>, phone |-> << >>]} }

\* redflags_doctor rows (the columns ensure_enrollment reads)
DoctorRows ==
    { [doctor_id |-> "DR1", email |-> <<"A", "@", "x">>,
       whatsapp_no |-> <<"+", "9", "1", "9", "8", "7", "6", "5", "4", "3", "2", "1", "0">>,
       clinic_phone |-> << >>],
      [doctor_id |-> "DR2", email |-> << >>, whatsapp_no |-> << >>, clinic_phone |-> << >>] }

\* inputs of ensure_enrollment
DoctorIds == {"DR1", "DR2", ""}
CampaignIds == { <<"c", "-", "1">>, <<"c", "1">>, << >> }
RegisteredBys == { << >>, <<"7">>, <<"x">> }

\* a doctor reference stored in the enrollment table: a campaign_doctor id
\* (num) or the doctor_id string (str); the unused half is 0 or ""
NumRef(n) == [num |-> n, str |-> ""]
\* (a reference that drops the doctor_id)
NoRef(d) == [num |-> 0, str |-> ""]
StrRef(d) == [num |-> 0, str |-> d]

(***************************************************************************)
(* ensure_enrollment and _ensure_campaign_doctor_id                        *)
(***************************************************************************)

MaxCalls == 2   \* ensure_enrollment calls per behaviour

Procs == {1, 2}   \* workers calling the bridge

IdleProc ==
    [pc |-> "idle", doctor_id |-> "", campaign_id |-> << >>, registered_by |-> << >>,
     email |-> << >>, phone |-> << >>, doctor_val |-> StrRef(""),
     meta |-> NoValue,    \* what _get_enrollment_meta() returned to the call
     result |-> "none",   \* "ok": the call returned; "error": it raised
     calls |-> 0,         \* calls this worker has made
     before |-> {},       \* enrollment rows when its latest call started
     prev |-> NoValue]    \* doctor_id, campaign_id and result of its call before that

NoEnrollHist == [calls |-> 0]   \* calls started so far, by all workers

EnrollInit ==
    /\ \E tables \in MasterSchemas, seed \in CampaignDoctorSeeds :
          /\ seed # {} => TableExists(tables, T_CAMPAIGN_DOCTOR)
                          /\ {"email", "phone"} \subseteq
                                DOMAIN TableNamed(tables, T_CAMPAIGN_DOCTOR).cols
          /\ master = [tables |-> tables, doctors |-> DoctorRows, campaign_doctor |-> seed,
                       enrollment |-> {},
                       next_cd |-> IF seed = {} THEN 1 ELSE FIRST_FREE_ID, next_en |-> 1]
    /\ metaCache = NoValue
    /\ eproc = [p \in Procs |-> IdleProc]
    /\ ehist = NoEnrollHist
    /\ CatalogIdle

\* the SELECT of _ensure_campaign_doctor_id:
\* WHERE LOWER(email) = %s OR RIGHT(phone, 10) = %s
CdMatches(row, email_n, phone_last10) ==
    \/ email_n # << >> /\ Lower(row.email) = email_n
    \/ phone_last10 # << >> /\ Last10(row.phone) = phone_last10

\* (a lookup that never finds a row)
SelectNothing(rows, email_n, phone_last10) == NoValue

\* ... ORDER BY id DESC LIMIT 1: the id, or NoValue
SelectCampaignDoctor(rows, email_n, phone_last10) ==
    LET hits == {r.id : r \in {x \in rows : CdMatches(x, email_n, phone_last10)}}
    IN  IF hits = {} THEN NoValue ELSE Some(CHOOSE n \in hits : \A m \in hits : m <= n)

\* the campaign_doctor table has the columns the SELECT names: id, and
\* email and phone as far as the doctor has them
CampaignDoctorUsable(tables, email_n, phone_last10) ==
    ({"id"} \cup (IF email_n # << >> THEN {"email"} ELSE {})
            \cup (IF phone_last10 # << >> THEN {"phone"} ELSE {}))
        \subseteq DOMAIN TableNamed(tables, T_CAMPAIGN_DOCTOR).cols

\* the campaign_doctor table has the columns the INSERT names
CampaignDoctorInsertable(tables) ==
    {"full_name", "email", "phone", "city", "state", "created_at"}
        \subseteq DOMAIN TableNamed(tables, T_CAMPAIGN_DOCTOR).cols

\* str.isdigit()
IsDigitString(s) == s # << >> /\ \A i \in 1..Len(s) : IsDigit(s[i])

\* int(s) for a digit string
RECURSIVE ToInt(_)
ToInt(s) == IF Len(s) = 0 THEN 0
            ELSE 10 * ToInt(SubSeq(s, 1, Len(s) - 1)) + (Ord[s[Len(s)]] - Ord["0"])

\* (an INSERT that names the four optional columns whatever the table has)
FixedColumns(cols, registered_by_col, registered_by, now) ==
    [whitelabel_enabled |-> <<0>>, whitelabel_subdomain |-> << >>,
     registered_at |-> <<now>>, active |-> <<1>>]

\* insert_cols / insert_vals besides the doctor and campaign columns:
\* the optional columns present on the table, with their defaults
ExtraColumns(cols, registered_by_col, registered_by, now) ==
    LET rb == Strip(registered_by)
        names == ({"whitelabel_enabled", "whitelabel_subdomain", "registered_at", "active"}
                    \cap cols)
                 \cup (IF registered_by_col # "" /\ registered_by_col \in cols
                          /\ IsDigitString(rb)
                       THEN {registered_by_col} ELSE {})
    IN  [n \in names |->
            CASE n = "whitelabel_enabled" -> <<0>>
              [] n = "whitelabel_subdomain" -> << >>
              [] n = "registered_at" -> <<now>>
              [] n = "active" -> <<1>>
              [] OTHER -> <<ToInt(rb)>>]

\* a plain INSERT on a table without the unique key: the row is always
\* added (the behaviour INSERT IGNORE under the key must differ from)
InsertAlways(rows, id, doctor_val, campaign, extra) ==
    rows \cup {[id |-> id, doctor |-> doctor_val, campaign |-> campaign, extra |-> extra]}

\* INSERT IGNORE under the unique key (campaign_id, doctor_id): a row with
\* the same key makes the statement a no-op
InsertIgnore(rows, id, doctor_val, campaign, extra) ==
    IF \E r \in rows : r.doctor = doctor_val /\ r.campaign = campaign THEN rows
    ELSE rows \cup {[id |-> id, doctor |-> doctor_val, campaign |-> campaign, extra |-> extra]}

\* the redflags_doctor row of doctor_id, or NoValue (.filter(...).first())
DoctorRow(doctors, doctor_id) ==
    IF \E r \in doctors : r.doctor_id = doctor_id
    THEN Some(CHOOSE r \in doctors : r.doctor_id = doctor_id) ELSE NoValue

\* email_n of _ensure_campaign_doctor_id for the doctor's row
DoctorEmail(rd) == IF rd = NoValue THEN << >> ELSE Lower(Strip(Lower(Strip(rd[1].email))))

\* phone_last10 of _ensure_campaign_doctor_id for the doctor's row
DoctorPhone(rd) ==
    IF rd = NoValue THEN << >>
    ELSE LET phone_v == IF Strip(rd[1].whatsapp_no) # << >> THEN Strip(rd[1].whatsapp_no)
                        ELSE Strip(rd[1].clinic_phone)
         IN  Last10(Digits(phone_v))

\* (a bridge that swallows the error and reports success)
ReturnOk(proc, result) == [proc EXCEPT !.pc = "idle", !.result = "ok"]

\* a worker returns from (or raises out of) ensure_enrollment
Return(proc, result) == [proc EXCEPT !.pc = "idle", !.result = result]

\* ensure_enrollment up to its first statement on campaign_doctor: the
\* guard on the arguments, the discovery, and the reading of the doctor's row
EnsureEnrollment(p, doctor_id, campaign_id, registered_by) ==
    /\ eproc[p].pc = "idle"
    /\ \A q \in Procs : q < p => eproc[q].pc # "idle"
    /\ ehist.calls < MaxCalls
    /\ ehist' = [ehist EXCEPT !.calls = @ + 1]
    /\ LET me == eproc[p]
           called == [me EXCEPT !.doctor_id = doctor_id, !.campaign_id = campaign_id,
                                !.registered_by = registered_by, !.email = << >>,
                                !.phone = << >>, !.doctor_val = StrRef(doctor_id),
                                !.meta = NoValue, !.result = "none", !.calls = @ + 1,
                                !.before = master.enrollment,
                                !.prev = IF me.calls = 0 THEN NoValue
                                         ELSE Some([doctor_id |-> me.doctor_id,
                                                    campaign_id |-> me.campaign_id,
                                                    result |-> me.result])]
           meta == GetEnrollmentMeta(metaCache, master.tables)
       IN  IF doctor_id = "" \/ campaign_id = << >>
           THEN /\ eproc' = [eproc EXCEPT ![p] = Return(called, "ok")]
                /\ UNCHANGED metaCache
           ELSE IF meta = NoValue
           THEN /\ eproc' = [eproc EXCEPT ![p] = Return(called, "error")]
                /\ UNCHANGED metaCache
           ELSE LET doctor_type == ColumnDataType(master.tables, meta[1].table,
                                                  meta[1].doctor_col)
                    rd == DoctorRow(master.doctors, doctor_id)
                IN  /\ metaCache' = meta
                    /\ IF /\ IsNumericMysqlType(doctor_type)
                          /\ TableExists(master.tables, T_CAMPAIGN_DOCTOR)
                          /\ ~(DoctorEmail(rd) = << >> /\ DoctorPhone(rd) = << >>)
                       THEN eproc' = [eproc EXCEPT ![p] =
                                        [called EXCEPT !.pc = "cd_select",
                                                       !.meta = meta,
                                                       !.email = DoctorEmail(rd),
                                                       !.phone = DoctorPhone(rd)]]
                       ELSE eproc' = [eproc EXCEPT ![p] =
                                        [called EXCEPT !.pc = "insert", !.meta = meta]]

\* a caller other than create_doctor_with_enrollment starts ensure_enrollment
EnsureStart(p, doctor_id, campaign_id, registered_by) ==
    /\ EnsureEnrollment(p, doctor_id, campaign_id, registered_by)
    /\ UNCHANGED master
    /\ UNCHANGED catalogVars

\* _ensure_campaign_doctor_id: the first SELECT
CdSelect(p) ==
    /\ eproc[p].pc = "cd_select"
    /\ LET me == eproc[p]
           found == SelectCampaignDoctor(master.campaign_doctor, me.email, me.phone)
       IN  eproc' = [eproc EXCEPT ![p] =
                IF ~CampaignDoctorUsable(master.tables, me.email, me.phone)
                THEN [me EXCEPT !.pc = "insert"]
                ELSE IF found # NoValue
                THEN [me EXCEPT !.pc = "insert", !.doctor_val = NumRef(found[1])]
                ELSE [me EXCEPT !.pc = "cd_insert"]]
    /\ UNCHANGED <<master, metaCache, ehist>>
    /\ UNCHANGED catalogVars

\* _ensure_campaign_doctor_id: the INSERT (the columns the bridge reads
\* back); on a table without the columns it raises, and ensure_enrollment
\* goes on with the string doctor_id
CdInsert(p) ==
    /\ eproc[p].pc = "cd_insert"
    /\ IF CampaignDoctorInsertable(master.tables)
       THEN /\ master' = [master EXCEPT
                            !.campaign_doctor = @ \cup {[id |-> master.next_cd,
                                                         email |-> eproc[p].email,
                                                         phone |-> eproc[p].phone]},
                            !.next_cd = @ + 1]
            /\ eproc' = [eproc EXCEPT ![p].pc = "cd_reselect"]
       ELSE /\ master' = master
            /\ eproc' = [eproc EXCEPT ![p].pc = "insert"]
    /\ UNCHANGED <<metaCache, ehist>>
    /\ UNCHANGED catalogVars

\* _ensure_campaign_doctor_id: the SELECT after the INSERT
CdReselect(p) ==
    /\ eproc[p].pc = "cd_reselect"
    /\ LET me == eproc[p]
           found == SelectCampaignDoctor(master.campaign_doctor, me.email, me.phone)
       IN  eproc' = [eproc EXCEPT ![p] =
                IF found # NoValue
                THEN [me EXCEPT !.pc = "insert", !.doctor_val = NumRef(found[1])]
                ELSE [me EXCEPT !.pc = "insert"]]
    /\ UNCHANGED <<master, metaCache, ehist>>
    /\ UNCHANGED catalogVars

\* ensure_enrollment: the INSERT IGNORE into the enrollment table; the
\* statement raises when the table or one of the two columns it names is
\* not there
EnrollInsert(p) ==
    /\ eproc[p].pc = "insert"
    /\ LET me == eproc[p]
           meta == me.meta[1]
           cols == TableColumns(master.tables, meta.table)
           rows == InsertIgnore(master.enrollment, master.next_en, me.doctor_val,
                                NormalizeUuid(me.campaign_id),
                                ExtraColumns(cols, meta.registered_by_col,
                                             me.registered_by, ehist.calls))
       IN  IF {meta.doctor_col, meta.campaign_col} \subseteq cols
           THEN /\ master' = [master EXCEPT
                                !.enrollment = rows,
                                !.next_en = IF rows = master.enrollment THEN @ ELSE @ + 1]
                /\ eproc' = [eproc EXCEPT ![p] = Return(me, "ok")]
           ELSE /\ master' = master
                /\ eproc' = [eproc EXCEPT ![p] = Return(me, "error")]
    /\ UNCHANGED <<metaCache, ehist>>
    /\ UNCHANGED catalogVars

\* one caller, one call after the other
EnrollSeqNext ==
    \/ \E d \in DoctorIds, c \in CampaignIds, rb \in RegisteredBys : EnsureStart(1, d, c, rb)
    \/ CdSelect(1)
    \/ CdInsert(1)
    \/ CdReselect(1)
    \/ EnrollInsert(1)

SpecEnrollSeq == EnrollInit /\ [][EnrollSeqNext]_vars

\* two workers (two requests, or a request and the management command)
EnrollNext ==
    \E p \in Procs :
        \/ \E d \in DoctorIds, c \in CampaignIds, rb \in RegisteredBys : EnsureStart(p, d, c, rb)
        \/ CdSelect(p)
        \/ CdInsert(p)
        \/ CdReselect(p)
        \/ EnrollInsert(p)

SpecEnroll == EnrollInit /\ [][EnrollNext]_vars

(***************************************************************************)
(* The bridge in a process that outlives a change of the master schema     *)
(***************************************************************************)

\* The master database is migrated between two calls, after the process has
\* discovered the enrollment table, to a schema on which the discovery would
\* give another result.  Rows of a table that is dropped go with it.
AlterSchema(tables) ==
    /\ \A p \in Procs : eproc[p].pc = "idle"
    /\ metaCache # NoValue
    /\ Discover(master.tables) = metaCache
    /\ Discover(tables) # metaCache
    /\ master' = [master EXCEPT
                    !.tables = tables,
                    !.enrollment = IF TableExists(tables, metaCache[1].table) THEN @ ELSE {},
                    !.campaign_doctor =
                        IF {"email", "phone"} \subseteq TableColumns(tables, T_CAMPAIGN_DOCTOR)
                        THEN @ ELSE {}]
    /\ UNCHANGED <<metaCache, eproc, ehist>>
    /\ UNCHANGED catalogVars

MigrateNext ==
    \/ \E d \in DoctorIds, c \in CampaignIds, rb \in RegisteredBys : EnsureStart(1, d, c, rb)
    \/ CdSelect(1)
    \/ CdInsert(1)
    \/ CdReselect(1)
    \/ EnrollInsert(1)
    \/ \E tables \in MasterSchemas : AlterSchema(tables)

SpecMigrate == EnrollInit /\ [][MigrateNext]_vars

(***************************************************************************)
(* create_doctor_with_enrollment (accounts/master_db.py)                   *)
(***************************************************************************)

\* the call of create_doctor_with_enrollment in progress: its arguments,
\* its result ("ok": returned, "error": raised), and the number of
\* ensure_enrollment calls it has made
IdleCreate ==
    [fn |-> "create_doctor_with_enrollment", pc |-> "idle", doctor_id |-> "",
     campaign_id |-> << >>, out |-> "none", attempts |-> 0]

NewDoctorIds == {"DR1", "DR3"}   \* DR1 is in redflags_doctor already

\* the redflags_doctor row the function creates (the columns the bridge reads)
NewDoctorRow(doctor_id) ==
    [doctor_id |-> doctor_id, email |-> <<"n", "@", "x">>,
     whatsapp_no |-> <<"9", "1", "2", "3", "4", "5", "6", "7", "8", "0">>,
     clinic_phone |-> << >>]

CreateInit ==
    /\ \E tables \in MasterSchemas :
          master = [tables |-> tables, doctors |-> DoctorRows, campaign_doctor |-> {},
                    enrollment |-> {}, next_cd |-> 1, next_en |-> 1]
    /\ metaCache = NoValue
    /\ eproc = [p \in Procs |-> IdleProc]
    /\ ehist = NoEnrollHist
    /\ db = EmptyDb
    /\ cache = << >>
    /\ readers = << >>
    /\ writer = IdleWriter
    /\ hist = NoHist
    /\ payload = NoValue
    /\ call = IdleCreate

\* (a function that lets the enrollment's error out)
Propagate(result) == result

\* try: ensure_enrollment(...) except Exception: _log_db(...)
Swallow(result) == "ok"

\* RedflagsDoctor.objects.using(alias).create(...): the INSERT raises on a
\* doctor_id that is there already, and the function raises with it
CreateDoctor(doctor_id, campaign_id) ==
    /\ call.pc = "idle"
    /\ ehist.calls < MaxCalls
    /\ IF \E r \in master.doctors : r.doctor_id = doctor_id
       THEN /\ call' = [call EXCEPT !.doctor_id = doctor_id, !.campaign_id = campaign_id,
                                    !.out = "error", !.attempts = 0]
            /\ master' = master
       ELSE /\ call' = [call EXCEPT !.pc = "created", !.doctor_id = doctor_id,
                                    !.campaign_id = campaign_id, !.out = "none",
                                    !.attempts = 0]
            /\ master' = [master EXCEPT !.doctors = @ \cup {NewDoctorRow(doctor_id)}]
    /\ UNCHANGED <<db, cache, readers, writer, hist, payload, metaCache, eproc, ehist>>

\* if campaign_id: ensure_enrollment(...), up to its first statement on
\* campaign_doctor; without a campaign_id the function returns
CreateEnroll ==
    /\ call.pc = "created"
    /\ IF call.campaign_id = << >>
       THEN /\ call' = [call EXCEPT !.pc = "idle", !.out = "ok"]
            /\ UNCHANGED <<metaCache, eproc, ehist>>
       ELSE /\ EnsureEnrollment(1, call.doctor_id, call.campaign_id, << >>)
            /\ call' = [call EXCEPT !.pc = "enrolling", !.attempts = @ + 1]
    /\ UNCHANGED <<db, cache, readers, writer, hist, payload, master>>

\* ensure_enrollment has returned or raised: the function returns
CreateReturn ==
    /\ call.pc = "enrolling"
    /\ eproc[1].pc = "idle"
    /\ call' = [call EXCEPT !.pc = "idle", !.out = Swallow(eproc[1].result)]
    /\ UNCHANGED <<db, cache, readers, writer, hist, payload, master, metaCache, eproc, ehist>>

CreateNext ==
    \/ \E d \in NewDoctorIds, c \in CampaignIds : CreateDoctor(d, c)
    \/ CreateEnroll
    \/ CdSelect(1)
    \/ CdInsert(1)
    \/ CdReselect(1)
    \/ EnrollInsert(1)
    \/ CreateReturn

SpecCreate == CreateInit /\ [][CreateNext]_vars

(***************************************************************************)
(* The builder on videos with and without localized titles                 *)
(***************************************************************************)

\* which VideoLanguage rows video 1 has ("en", with a blank title or not, and
\* "hi"), and which rows around it are active
TitleFlags == {"en", "en_blank", "hi", "v_active", "in_bundle", "b_active", "tr_active"}

MkTitleDb(f) ==
    [therapy |-> {TherapyArea(1, CARD, HEART, TRUE)},
     topic |-> {TriggerCluster(1, ACUTE, ACUTE_NAME, TRUE)},
     trigger |-> {Trigger(1, CHEST, CHEST_NAME, 1, 1, f["tr_active"])},
     video |-> {Video(1, V1, Null, f["v_active"], TRUE)},
     vlang |-> (IF f["en"]
                THEN {VideoLanguage(1, "en", IF f["en_blank"] THEN << >> ELSE V1_TITLE)}
                ELSE {})
               \cup (IF f["hi"] THEN {VideoLanguage(1, "hi", B1_NAME)} ELSE {}),
     bundle |-> {VideoCluster(1, B1, B1_NAME, 1, f["b_active"], TRUE)},
     blang |-> {VideoClusterLanguage(1, "en", B1_NAME_EN)},
     vcv |-> IF f["in_bundle"] THEN {VideoClusterVideo(1, 1, 0)} ELSE {},
     vtm |-> {}]

TitleDbs == {MkTitleDb(f) : f \in [TitleFlags -> BOOLEAN]}

TitleInit ==
    /\ db \in TitleDbs
    /\ cache = << >>
    /\ readers = << >>
    /\ writer = IdleWriter
    /\ hist = NoHist
    /\ payload = NoValue
    /\ MasterIdle

TitleNext == DoBuild

SpecTitles == TitleInit /\ [][TitleNext]_vars

(***************************************************************************)
(* generate_temporary_password (accounts/master_db.py)                     *)
(***************************************************************************)

MaxLength == 7   \* requested lengths run from -MaxLength to MaxLength

MIN_PASSWORD_LENGTH == 6
DEFAULT_PASSWORD_LENGTH == 10

\* string.ascii_letters + string.digits
PasswordAlphabet == LowerChars \cup UpperChars \cup DigitChars

\* the outcomes of random.choice that are explored: the characters of the
\* alphabet among these
SampleChars == {"a", "Z", "9", "_"}

\* (a generator that takes the requested length as it is)
RequestedLength(length) == length

\* max(6, int(length or 10))
PasswordLength(length) ==
    LET n == IF length = 0 THEN DEFAULT_PASSWORD_LENGTH ELSE length
    IN  IF n > MIN_PASSWORD_LENGTH THEN n ELSE MIN_PASSWORD_LENGTH

\* the strings "".join(random.choice(alphabet) for _ in range(n)) can be
Passwords(length) == [1..PasswordLength(length) -> PasswordAlphabet \cap SampleChars]

PasswordInit ==
    /\ \E length \in (0 - MaxLength)..MaxLength :
          call = [fn |-> "generate_temporary_password", arg |-> length, out |-> NoValue]
    /\ db = EmptyDb
    /\ cache = << >>
    /\ readers = << >>
    /\ writer = IdleWriter
    /\ hist = NoHist
    /\ payload = NoValue
    /\ master = [tables |-> {}, doctors |-> {}, campaign_doctor |-> {}, enrollment |-> {},
                 next_cd |-> 1, next_en |-> 1]
    /\ metaCache = NoValue
    /\ eproc = << >>
    /\ ehist = NoEnrollHist

GeneratePassword ==
    /\ call.out = NoValue
    /\ \E pw \in Passwords(call.arg) : call' = [call EXCEPT !.out = Some(pw)]
    /\ UNCHANGED <<db, cache, readers, writer, hist, payload, master, metaCache, eproc, ehist>>

PasswordNext == GeneratePassword

SpecPassword == PasswordInit /\ [][PasswordNext]_vars

(***************************************************************************)
(* Claims about the payload builder (checked under SpecBuild)              *)
(***************************************************************************)

Built == payload # NoValue
P == payload[1]

\* the catalog row a payload record was made from
RowByCode(table, code) == CHOOSE r \in table : r.code = code

\* C2: every record of the payload's top-level lists passes the filter: no
\* inactive TherapyArea, TriggerCluster or Trigger is listed, no Video with
\* is_published = FALSE is in videos, no VideoCluster with is_published =
\* FALSE is in bundles.
C2_OnlyActivePublished ==
    Built =>
        /\ \A i \in 1..Len(P.therapy_areas) : RowByCode(db.therapy, P.therapy_areas[i].code).is_active
        /\ \A i \in 1..Len(P.topics) : RowByCode(db.topic, P.topics[i].code).is_active
        /\ \A i \in 1..Len(P.triggers) : RowByCode(db.trigger, P.triggers[i].code).is_active
        /\ \A i \in 1..Len(P.videos) : RowByCode(db.video, P.videos[i].id).is_published
        /\ \A i \in 1..Len(P.bundles) : RowByCode(db.bundle, P.bundles[i].code).is_published

\* the triggers a video is associated with: its primary trigger and the
\* triggers of its VideoTriggerMap rows
AssociatedTriggers(d, v) ==
    {t \in d.trigger : t.id = v.primary_trigger_id
                       \/ \E m \in d.vtm : m.video_id = v.id /\ m.trigger_id = t.id}

\* C3: for every video of the payload, trigger_codes holds the code of the
\* primary Trigger and of every Trigger mapped to it, and therapy_codes the
\* code of the TherapyArea of each of them; a video with primary trigger CHEST
\* (therapy CARD) and no bundle gets trigger_codes = [CHEST] and
\* therapy_codes = [CARD].
C3_VideoTriggerAndTherapyCodes ==
    Built =>
        \A i \in 1..Len(P.videos) :
            LET v == RowByCode(db.video, P.videos[i].id)
                ts == AssociatedTriggers(db, v)
            IN  /\ \A t \in ts :
                    /\ t.code \in SeqRange(P.videos[i].trigger_codes)
                    /\ RowById(db.therapy, t.primary_therapy_id).code
                          \in SeqRange(P.videos[i].therapy_codes)
                /\ (v.primary_trigger_id # Null /\ db.vcv = {} /\ db.vtm = {}) =>
                      /\ P.videos[i].trigger_codes = <<CHEST>>
                      /\ P.videos[i].therapy_codes = <<CARD>>

\* C4: for every video of the payload that is a member of a bundle B of the
\* payload, whose Trigger T belongs to TherapyArea A, search_text contains,
\* case-insensitively, the codes of T, of A and of B.
C4_SearchTextHasBundleTriggerTherapy ==
    Built =>
        \A i \in 1..Len(P.videos) :
            LET v == RowByCode(db.video, P.videos[i].id)
                text == Lower(P.videos[i].search_text)
            IN  \A m \in db.vcv :
                    (m.video_id = v.id
                     /\ \E j \in 1..Len(P.bundles) :
                           P.bundles[j].code = RowById(db.bundle, m.video_cluster_id).code) =>
                        LET b == RowById(db.bundle, m.video_cluster_id)
                            t == RowById(db.trigger, b.trigger_id)
                            a == RowById(db.therapy, t.primary_therapy_id)
                        IN  /\ Contains(text, Lower(t.code))
                            /\ Contains(text, Lower(a.code))
                            /\ Contains(text, Lower(b.code))

(***************************************************************************)
(* Claims about the cache gateway and the invalidation hooks               *)
(***************************************************************************)

Current == Some(BuildCatalogPayload(db))

\* C1: after a create, update or delete of a TherapyArea, TriggerCluster,
\* Trigger, Video, VideoCluster, VideoClusterVideo or VideoTriggerMap row, the
\* next get_catalog call without force_refresh returns the payload of the
\* database after the write (the write and its invalidation ran with no
\* request in progress and no cache failure).
C1_ReadAfterWriteIsCurrent ==
    \A r \in Readers :
        (/\ hist.writes > 0 /\ hist.signalled /\ ~hist.failed /\ hist.quietWrite
         /\ writer.pc = "idle"
         /\ readers[r].pc = "idle" /\ readers[r].fresh /\ ~readers[r].force
         /\ readers[r].ret # NoValue)
        => readers[r].ret = Current

\* C6: once every get_catalog call and every write with its invalidation has
\* completed, the catalog cache entry is absent or equal to the payload of the
\* final database; and two rebuilds in progress with no write in between hold
\* the same payload to store.
C6_QuiescentCacheIsCurrent ==
    /\ ((\A r \in Readers : readers[r].pc = "idle") /\ writer.pc = "idle") =>
           cache[CATALOG_CACHE_KEY] \in {NoValue, Current}
    /\ \A r, q \in Readers :
           (readers[r].pc = "set" /\ readers[q].pc = "set"
            /\ readers[r].fresh /\ readers[q].fresh) =>
               readers[r].local = readers[q].local

\* C8: when clear_catalog_cache() has just completed and no cache.delete
\* raised, no catalog cache key of any version holds a value, the key the
\* gateway reads and writes included.
C8_ClearDeletesEveryVersion ==
    (hist.cleared /\ ~hist.failed) => \A k \in AllCatalogKeys : cache[k] = NoValue

\* C9: a save or a delete of a row of any catalog model, VideoLanguage and
\* VideoClusterLanguage included, runs clear_catalog_cache().
C9_EveryModelInvalidates == hist.writes > 0 => hist.signalled

\* C10: while the invalidation runs, whether cache.delete succeeds or raises,
\* no exception reaches the write, the database keeps the written state, and
\* the loop goes on to the next key.
C10_DeleteFailureSwallowed ==
    [][writer.pc = "clear" =>
          /\ ~writer'.raised
          /\ db' = db
          /\ writer.key < Len(CATALOG_CACHE_KEYS) =>
                (writer'.pc = "clear" /\ writer'.key = writer.key + 1)]_vars

\* C10 witness: a cache.delete raised and the loop is at the next key
C10_Witness ==
    /\ hist.failed /\ hist.signalled
    /\ writer.pc = "clear" /\ writer.key = 2 /\ writer.pending = 1
    /\ ~writer.raised

(***************************************************************************)
(* Claims about ensure_enrollment                                          *)
(***************************************************************************)

\* the references under which doctor_id can stand in the enrollment table:
\* the string itself, or the id of a campaign_doctor row with the doctor's
\* lower-cased email or last 10 phone digits
DoctorRefs(doctor_id) ==
    LET rd == DoctorRow(master.doctors, doctor_id)
    IN  {StrRef(doctor_id)}
        \cup {NumRef(r.id) : r \in {x \in master.campaign_doctor :
                                        CdMatches(x, DoctorEmail(rd), DoctorPhone(rd))}}

\* the enrollment rows of the (doctor, campaign) pair
EnrollmentRows(doctor_id, campaign_id) ==
    {r \in master.enrollment :
        r.campaign = NormalizeUuid(campaign_id) /\ r.doctor \in DoctorRefs(doctor_id)}

\* the worker has returned from a call that repeats its previous call's
\* non-empty doctor_id and campaign_id, and that previous call succeeded
RepeatedCall(p) ==
    /\ eproc[p].pc = "idle"
    /\ eproc[p].prev # NoValue
    /\ eproc[p].doctor_id # "" /\ eproc[p].campaign_id # << >>
    /\ eproc[p].prev[1].doctor_id = eproc[p].doctor_id
    /\ eproc[p].prev[1].campaign_id = eproc[p].campaign_id
    /\ eproc[p].prev[1].result = "ok"

\* C5: when ensure_enrollment is called twice in a row with the same
\* (non-empty) doctor_id and campaign_id, whatever registered_by is, and the
\* first call succeeded, then the second call raises nothing, leaves the
\* enrollment table as it found it, and exactly one enrollment row exists
\* for the (doctor, campaign) pair.
C5_SecondEnsureIsNoOp ==
    RepeatedCall(1) =>
        /\ eproc[1].result = "ok"
        /\ master.enrollment = eproc[1].before
        /\ Cardinality(EnrollmentRows(eproc[1].doctor_id, eproc[1].campaign_id)) = 1

\* a second call has returned after a first call with the same ids that
\* resolved the doctor through campaign_doctor and inserted the row
C5_Witness ==
    /\ RepeatedCall(1)
    /\ eproc[1].doctor_val.num > 0
    /\ \E r \in master.enrollment : r.doctor = eproc[1].doctor_val

\* C7: for any interleaving of two concurrent ensure_enrollment calls with
\* the same doctor_id and campaign_id (on a master schema whose enrollment
\* table is discoverable, the numeric doctor column with its campaign_doctor
\* find-or-create included), once both calls have completed neither has
\* failed and exactly one enrollment row exists for the doctor and campaign.
C7_ConcurrentEnsureLeavesOneRow ==
    (/\ \A p \in Procs : eproc[p].pc = "idle" /\ eproc[p].calls = 1
     /\ eproc[1].doctor_id = eproc[2].doctor_id
     /\ eproc[1].campaign_id = eproc[2].campaign_id
     /\ eproc[1].doctor_id # "" /\ eproc[1].campaign_id # << >>
     /\ Discover(master.tables) # NoValue)
    => /\ \A p \in Procs : eproc[p].result = "ok"
       /\ Cardinality(EnrollmentRows(eproc[1].doctor_id, eproc[1].campaign_id)) = 1

(***************************************************************************)
(* Claims about the cache gateway alone (checked under SpecGateway)        *)
(***************************************************************************)

\* the worker that takes the next get_catalog_json_cached call
Caller == CHOOSE r \in Readers : readers[r].pc = "idle"
                                 /\ \A q \in Readers : q < r => readers[q].pc # "idle"

\* the step is the start of a get_catalog_json_cached call
CallStarts == hist'.reads = hist.reads + 1

\* C11: a get_catalog call with force_refresh = FALSE that finds a valid
\* payload (a non-empty mapping) under the cache key returns exactly that
\* payload, never reaches the builder, and leaves the cache and the database
\* unchanged.
C11_CacheHitFrame ==
    [][(/\ CallStarts
        /\ ~readers'[Caller].force
        /\ cache[CATALOG_CACHE_KEY] \notin {NoValue, Some(<< >>)}
        /\ IsMapping(cache[CATALOG_CACHE_KEY][1]))
       => /\ readers'[Caller].pc = "idle"
          /\ readers'[Caller].ret = cache[CATALOG_CACHE_KEY]
          /\ readers'[Caller].local = NoValue
          /\ cache' = cache
          /\ db' = db]_vars

\* a call without force_refresh has returned the payload that was cached,
\* which is not the payload of the database
C11_Witness ==
    /\ db = SeedDb
    /\ hist.reads = 1
    /\ readers[1].pc = "idle" /\ ~readers[1].force
    /\ readers[1].ret = Some(BuildCatalogPayload(EmptyDb))
    /\ cache[CATALOG_CACHE_KEY] = readers[1].ret

\* C12: a get_catalog call that misses, or has force_refresh = TRUE whatever
\* the cache holds, goes to the builder; the builder runs once, on the
\* database as it is; the result is stored under the one catalog cache key
\* with the timeout CATALOG_CACHE_SECONDS and returned, so that right after
\* the call the cache entry equals the returned payload.
C12_MissOrForceRebuildsAndStores ==
    [][/\ (CallStarts /\ (readers'[Caller].force \/ ~Truthy(cache[CATALOG_CACHE_KEY])))
            => (readers'[Caller].pc = "build" /\ cache' = cache)
       /\ \A r \in Readers :
            /\ (readers[r].pc = "build" /\ readers'[r] # readers[r])
                  => /\ readers'[r].pc = "set"
                     /\ readers'[r].local = Some(BuildCatalogPayload(db))
                     /\ cache' = cache
            /\ (readers[r].pc = "set" /\ readers'[r] # readers[r])
                  => /\ readers'[r].pc = "idle"
                     /\ readers'[r].ret = readers[r].local
                     /\ cache'[CATALOG_CACHE_KEY] = readers'[r].ret
                     /\ \A k \in AllCatalogKeys \ {CATALOG_CACHE_KEY} : cache'[k] = cache[k]
                     /\ hist'.ttl = CATALOG_CACHE_SECONDS]_vars

\* a forced call has replaced a cached payload by the payload of the database
C12_Witness ==
    /\ db = SeedDb
    /\ hist.reads = 2
    /\ readers[1].pc = "idle" /\ readers[1].force
    /\ readers[1].ret = Some(BuildCatalogPayload(SeedDb))
    /\ cache[CATALOG_CACHE_KEY] = readers[1].ret
    /\ hist.ttl = CATALOG_CACHE_SECONDS

\* C13: get_catalog returns mappings only: when the cache key holds a string
\* that is no serialized payload, the call goes to the builder as on a miss,
\* overwrites the entry and returns the payload of the database; so once a
\* call has returned, what it returned is a mapping and the string is gone
\* from the cache.
C13_LegacyStringIsMiss ==
    \A r \in Readers :
        readers[r].ret # NoValue =>
            /\ IsMapping(readers[r].ret[1])
            /\ cache[CATALOG_CACHE_KEY] # Some(LegacyString)

(***************************************************************************)
(* Claims about repeated builds (checked under SpecRebuild)                *)
(***************************************************************************)

\* the ORDER BY key tells any two rows of the queryset apart, so the database
\* can return them in one order only
Stable(S, key) == \A x, y \in S : x # y => key[x] # key[y]

\* every ordered queryset of _build_catalog_payload has one possible order
StableOrdering(d) ==
    LET tas == {r \in d.therapy : r.is_active}
        trs == {r \in d.trigger : r.is_active}
        tcs == {r \in d.topic : r.is_active}
        bs == {r \in d.bundle : BundleFilter(r)}
        vs == {r \in d.video : VideoFilter(r)}
        ms == SeqRange(VcvRows(d))
    IN  /\ Stable(tas, NameCodeKey(tas))
        /\ Stable(trs, NameCodeKey(trs))
        /\ Stable(tcs, NameCodeKey(tcs))
        /\ Stable(bs, NameCodeKey(bs))
        /\ Stable(vs, [r \in vs |-> r.code])
        /\ Stable(ms, [r \in ms |-> <<r.video_cluster_id, r.sort_order,
                                      RowById(d.video, r.video_id).code>>])

\* the codes of a list of payload records, in order
Codes(records, field) == [i \in 1..Len(records) |-> records[i][field]]

\* C14: two builds with no database change in between yield equal payloads:
\* every ordered queryset has one possible order, each list holds the same
\* records in the same order, and the code lists and search_text strings of
\* the records are the same.
C14_BuildIsIdempotent ==
    Len(payload) = 2 =>
        /\ StableOrdering(db)
        /\ payload[1] = payload[2]
        /\ \A list \in {"therapy_areas", "triggers", "topics", "bundles"} :
              Codes(payload[1][list], "code") = Codes(payload[2][list], "code")
        /\ Codes(payload[1].videos, "id") = Codes(payload[2].videos, "id")
        /\ Codes(payload[1].videos, "search_text") = Codes(payload[2].videos, "search_text")

\* both builds have run on a catalog where rows share their display_name and
\* their sort_order, and the lists hold two records each
C14_Witness ==
    /\ Len(payload) = 2
    /\ \E a, b \in db.therapy : a # b /\ a.display_name = b.display_name
                               /\ a.is_active /\ b.is_active
    /\ \E m, n \in db.vcv : m # n /\ m.video_cluster_id = n.video_cluster_id
                            /\ m.sort_order = n.sort_order
    /\ Len(payload[2].therapy_areas) = 2
    /\ Len(payload[2].videos) = 2
    /\ Len(payload[2].bundles[1].video_codes) = 2

(***************************************************************************)
(* Claims about the YouTube id extraction (checked under SpecYoutube)      *)
(***************************************************************************)

\* an 11-character id over letters, digits, "_" and "-"
IsYoutubeId(s) == Len(s) = YT_ID_LENGTH /\ \A i \in 1..Len(s) : s[i] \in IdChars

\* C15: the extraction returns the embedded id for each supported shape
\* (youtu.be/<id>, watch?v=<id>, embed/<id>, shorts/<id>, the bare id) and
\* the empty string for not-a-url; whatever the input, its result is empty or
\* an 11-character id over letters, digits, "_" and "-".
C15_ExtractYoutubeId ==
    (call.out # NoValue) =>
        /\ \A id \in {t \in IdTexts : IsYoutubeId(t)} :
              call.arg \in SupportedUrls(id) => call.out[1] = id
        /\ call.arg = NOT_A_URL => call.out[1] = << >>
        /\ call.out[1] = << >> \/ IsYoutubeId(call.out[1])

(***************************************************************************)
(* Claims about discovery and doctor resolution (checked under             *)
(* SpecEnrollSeq)                                                          *)
(***************************************************************************)

\* the step begins a call of worker 1 with non-empty ids
EnsureCalled ==
    /\ ehist'.calls = ehist.calls + 1
    /\ eproc'[1].doctor_id # "" /\ eproc'[1].campaign_id # << >>

\* the step is the enrollment INSERT of worker 1
EnrollInserted == eproc[1].pc = "insert" /\ eproc'[1].pc = "idle"

\* C16: when no enrollment table can be discovered, or the discovered table
\* lacks the doctor or the campaign column, a call of ensure_enrollment with
\* non-empty ids raises, inserts nothing and leaves the discovery cache unset,
\* so that the next call runs the discovery again.
C16_DiscoveryFailureRaises ==
    [][(EnsureCalled /\ Discover(master.tables) = NoValue)
       => /\ eproc'[1].pc = "idle" /\ eproc'[1].result = "error"
          /\ master' = master
          /\ metaCache = NoValue /\ metaCache' = NoValue]_vars

\* two calls have raised on a schema whose enrollment table has no doctor
\* column, and the discovery cache is unset
C16_Witness ==
    /\ EnrollTableNoDoctor \in master.tables
    /\ eproc[1].calls = 2 /\ eproc[1].pc = "idle"
    /\ eproc[1].result = "error"
    /\ eproc[1].prev # NoValue /\ eproc[1].prev[1].result = "error"
    /\ eproc[1].doctor_id # "" /\ eproc[1].campaign_id # << >>
    /\ metaCache = NoValue /\ master.enrollment = {}

\* the doctor column of the discovered table is numeric, campaign_doctor
\* exists with the columns the bridge names, and the doctor of worker 1's
\* call has an email or a phone number
Resolvable ==
    /\ Discover(master.tables) # NoValue
    /\ LET meta == Discover(master.tables)[1]
       IN  IsNumericMysqlType(TableNamed(master.tables, meta.table).cols[meta.doctor_col])
    /\ TableExists(master.tables, T_CAMPAIGN_DOCTOR)
    /\ CampaignDoctorInsertable(master.tables)
    /\ "id" \in DOMAIN TableNamed(master.tables, T_CAMPAIGN_DOCTOR).cols
    /\ LET rd == DoctorRow(master.doctors, eproc[1].doctor_id)
       IN  DoctorEmail(rd) # << >> \/ DoctorPhone(rd) # << >>

\* the campaign_doctor rows matching the doctor of worker 1's call
MatchingRows(rows) ==
    LET rd == DoctorRow(master.doctors, eproc[1].doctor_id)
    IN  {r \in rows : CdMatches(r, DoctorEmail(rd), DoctorPhone(rd))}

\* C17: with a numeric doctor column and a doctor that has an email or a
\* phone number, the enrollment INSERT carries the id of a campaign_doctor
\* row whose lower-cased email or last 10 phone digits are the doctor's; a
\* campaign_doctor row is created only when no row matched, so a matching
\* row that exists is reused.
C17_NumericDoctorResolved ==
    [][/\ (EnrollInserted /\ Resolvable)
            => /\ eproc[1].doctor_val.num \in {r.id : r \in MatchingRows(master.campaign_doctor)}
               /\ \E r \in master'.enrollment :
                     /\ r.doctor = NumRef(eproc[1].doctor_val.num)
                     /\ r.campaign = NormalizeUuid(eproc[1].campaign_id)
       /\ (master'.campaign_doctor # master.campaign_doctor)
            => /\ MatchingRows(master.campaign_doctor) = {}
               /\ Cardinality(master'.campaign_doctor)
                     = Cardinality(master.campaign_doctor) + 1
               /\ Cardinality(MatchingRows(master'.campaign_doctor)) = 1]_vars

\* a call has enrolled DR1 under the id of a campaign_doctor row that was
\* there before the call, found by its phone number, and no row was created
C17_Witness ==
    /\ eproc[1].pc = "idle" /\ eproc[1].result = "ok" /\ eproc[1].doctor_id = "DR1"
    /\ eproc[1].doctor_val = NumRef(FIRST_FREE_ID - 2)
    /\ master.next_cd = FIRST_FREE_ID
    /\ \E r \in master.enrollment : r.doctor = NumRef(FIRST_FREE_ID - 2)

\* a call for doctor d cannot get a campaign_doctor id although the doctor
\* column is numeric and campaign_doctor exists: the doctor has no email and
\* no phone number, or the SELECT or the INSERT on campaign_doctor raises
UnresolvableFor(d) ==
    /\ Discover(master.tables) # NoValue
    /\ LET meta == Discover(master.tables)[1]
       IN  IsNumericMysqlType(TableNamed(master.tables, meta.table).cols[meta.doctor_col])
    /\ TableExists(master.tables, T_CAMPAIGN_DOCTOR)
    /\ LET rd == DoctorRow(master.doctors, d)
       IN  \/ DoctorEmail(rd) = << >> /\ DoctorPhone(rd) = << >>
           \/ ~CampaignDoctorUsable(master.tables, DoctorEmail(rd), DoctorPhone(rd))
           \/ /\ ~CampaignDoctorInsertable(master.tables)
              /\ {r \in master.campaign_doctor :
                     CdMatches(r, DoctorEmail(rd), DoctorPhone(rd))} = {}

Unresolvable == UnresolvableFor(eproc[1].doctor_id)

\* C18: when no campaign_doctor row can be found or created, the call does
\* not abort: it reaches the enrollment INSERT, the INSERT carries the
\* original string doctor_id, and the call returns without raising.
C18_FallbackToStringDoctorId ==
    [][/\ (\E d \in {"DR1", "DR2"} :
              EnsureCalled /\ eproc'[1].doctor_id = d /\ UnresolvableFor(d))
            => eproc'[1].pc \in {"cd_select", "insert"}
       /\ (eproc[1].pc \in {"cd_select", "cd_insert"} /\ Unresolvable /\ eproc'[1] # eproc[1])
            => eproc'[1].pc \in {"cd_insert", "insert"}
       /\ (EnrollInserted /\ Unresolvable)
            => /\ eproc[1].doctor_val.str = eproc[1].doctor_id
               /\ eproc[1].doctor_id # ""
               /\ eproc'[1].result = "ok"
               /\ \E r \in master'.enrollment :
                     /\ r.doctor.str = eproc[1].doctor_id /\ r.doctor.num = 0
                     /\ r.campaign = NormalizeUuid(eproc[1].campaign_id)]_vars

\* a call for DR1 has returned after the INSERT on campaign_doctor raised,
\* and the enrollment row carries the string doctor_id
C18_Witness ==
    /\ CampaignDoctorNarrow \in master.tables
    /\ eproc[1].pc = "idle" /\ eproc[1].result = "ok" /\ eproc[1].doctor_id = "DR1"
    /\ master.campaign_doctor = {}
    /\ \E r \in master.enrollment : r.doctor.str = "DR1" /\ r.doctor.num = 0

(***************************************************************************)
(* Claims about generate_temporary_password (checked under SpecPassword)   *)
(***************************************************************************)

\* C19: whatever length is requested (zero, negative and below 6 included),
\* the password has at least 6 characters, each an ASCII letter or digit, and
\* for a requested length of 6 or more it has exactly that length.
C19_PasswordLengthAndAlphabet ==
    call.out # NoValue =>
        LET pw == call.out[1]
        IN  /\ Len(pw) >= 6
            /\ \A i \in 1..Len(pw) : pw[i] \in LowerChars \cup UpperChars \cup DigitChars
            /\ call.arg >= 6 => Len(pw) = call.arg

\* a password has been generated for a negative length, and it mixes a
\* lower-case letter, an upper-case letter and a digit
C19_Witness ==
    /\ call.out # NoValue /\ call.arg < 0
    /\ {"a", "Z", "9"} \subseteq SeqRange(call.out[1])

(***************************************************************************)
(* Claims about the empty catalog (checked under SpecBuild)                *)
(***************************************************************************)

\* no therapy area, trigger, topic, bundle or video of d is active
NoActiveEntity(d) ==
    \A r \in d.therapy \cup d.trigger \cup d.topic \cup d.bundle \cup d.video : ~r.is_active

\* C20: on a database without any active entity the build returns a payload
\* with all six keys, in which therapy_areas, triggers, topics, bundles and
\* videos are empty lists and message_prefixes has one entry for each
\* supported language.
C20_EmptyCatalogIsWellFormed ==
    (payload # NoValue /\ NoActiveEntity(db)) =>
        /\ DOMAIN payload[1] = {"therapy_areas", "triggers", "topics", "bundles",
                                "videos", "message_prefixes"}
        /\ \A list \in {"therapy_areas", "triggers", "topics", "bundles", "videos"} :
              payload[1][list] = << >>
        /\ DOMAIN payload[1].message_prefixes = {LANGUAGES[i] : i \in 1..Len(LANGUAGES)}
        /\ Cardinality(DOMAIN payload[1].message_prefixes) = Len(LANGUAGES)

\* the build has run on a catalog whose rows are all there, in a bundle and
\* mapped, but inactive
C20_Witness ==
    /\ payload # NoValue /\ NoActiveEntity(db)
    /\ db.therapy # {} /\ db.trigger # {} /\ db.topic # {} /\ db.bundle # {}
    /\ db.video # {} /\ db.vcv # {}
    /\ \A v \in db.video : v.is_published

(***************************************************************************)
(* Claims about video titles (checked under SpecTitles)                    *)
(***************************************************************************)

\* the languages video v has a VideoLanguage row for
TitleLanguages(d, v) == {r.language_code : r \in {x \in d.vlang : x.video_id = v.id}}

\* C21: the build yields a record for every active video, with or without
\* localized titles; every video record has a non-empty display_name and an
\* "en" entry in titles; for a video without an English title both are the
\* video's code.
C21_TitleFallsBackToCode ==
    payload # NoValue =>
        /\ \A v \in db.video :
              v.is_active => \E i \in 1..Len(payload[1].videos) : payload[1].videos[i].id = v.code
        /\ \A i \in 1..Len(payload[1].videos) :
              LET rec == payload[1].videos[i]
                  v == CHOOSE x \in db.video : x.code = rec.id
              IN  /\ rec.display_name # << >>
                  /\ "en" \in DOMAIN rec.titles
                  /\ "en" \notin TitleLanguages(db, v)
                        => rec.titles["en"] = v.code /\ rec.display_name = v.code

\* the build has run on a video that has a Hindi title and no English one
C21_Witness ==
    /\ payload # NoValue /\ Len(payload[1].videos) = 1
    /\ \A v \in db.video : TitleLanguages(db, v) = {"hi"}
    /\ DOMAIN payload[1].videos[1].titles = {"en", "hi"}
    /\ payload[1].videos[1].display_name = payload[1].videos[1].id

(***************************************************************************)
(* Claims about search_text (checked under SpecBuild)                      *)
(***************************************************************************)

IsLowerCase(s) == \A i \in 1..Len(s) : s[i] \notin UpperChars

\* no two parts of the set are the same text up to letter case and
\* surrounding blanks
NoPartTwice(parts) ==
    \A x, y \in parts : Lower(Strip(x)) = Lower(Strip(y)) => x = y

\* C22: the search_text of every video and of every bundle of the payload is
\* lower-case throughout, and the parts it is joined from contain no text
\* twice.
C22_SearchTextLowerCaseDeduplicated ==
    payload # NoValue =>
        /\ \A i \in 1..Len(payload[1].videos) :
              /\ IsLowerCase(payload[1].videos[i].search_text)
              /\ NoPartTwice(VideoSearchParts(db,
                    CHOOSE v \in db.video : v.code = payload[1].videos[i].id) \ {<< >>})
        /\ \A i \in 1..Len(payload[1].bundles) :
              IsLowerCase(payload[1].bundles[i].search_text)

(***************************************************************************)
(* Claims about the gateway's footprint (checked under SpecGateway)        *)
(***************************************************************************)

\* C23: no step of a get_catalog call, forced or not, changes a catalog row
\* or the master database, and the only cache key a step may change is the
\* catalog cache key.
C23_ServingPathIsReadOnly ==
    [][(readers' # readers)
       => /\ db' = db
          /\ master' = master
          /\ \A k \in AllCatalogKeys \ {CATALOG_CACHE_KEY} : cache'[k] = cache[k]]_vars

\* a forced and an unforced call have both returned, the cache entry has been
\* rewritten, and the catalog and the other keys are as they were
C23_Witness ==
    /\ db = SeedDb
    /\ hist.reads = 2
    /\ \A r \in Readers : readers[r].pc = "idle" /\ readers[r].ret # NoValue
    /\ readers[1].force /\ ~readers[2].force
    /\ cache[CATALOG_CACHE_KEY] = Some(BuildCatalogPayload(SeedDb))
    /\ \A k \in AllCatalogKeys \ {CATALOG_CACHE_KEY} : cache[k] = NoValue

(***************************************************************************)
(* Claims about the timeout of the cache entry (checked under SpecExpiry)  *)
(***************************************************************************)

\* C28: with every invalidation missed, a call is served from the cache only
\* while less than CATALOG_CACHE_SECONDS (3600) have gone by since the entry
\* was stored, and a call made when that time has elapsed goes to the
\* builder and returns the payload of the database.
C28_StalenessBoundedByTtl ==
    [][/\ (CallStarts /\ readers'[Caller].pc = "idle") => hist.age < 3600
       /\ (CallStarts /\ hist.age >= 3600) => readers'[Caller].pc = "build"
       /\ \A r \in Readers :
            (readers[r].pc = "build" /\ readers'[r].pc = "set")
                => readers'[r].local = Some(BuildCatalogPayload(db))]_vars

\* after an earlier call, a call without force_refresh made two timeouts
\* after the store has found the entry gone and is on its way to the builder
C28_Witness ==
    /\ db = SeedDb
    /\ hist.reads = 2
    /\ hist.age >= 3600
    /\ readers[1].pc = "build" /\ ~readers[1].force
    /\ cache[CATALOG_CACHE_KEY] = NoValue

(***************************************************************************)
(* Claims about the share page (checked under SpecShare)                   *)
(***************************************************************************)

\* C24: a doctor_share request that finds a valid payload in the cache is
\* served from it: the gateway returns the cached payload to the view at
\* once and the builder is not run; the builder runs only on a miss.
C24_ShareServedFromCache ==
    [][\A r \in Readers :
          (/\ call[r].pc = "idle" /\ call'[r].pc = "catalog"
           /\ cache[CATALOG_CACHE_KEY] \notin {NoValue, Some(<< >>)}
           /\ IsMapping(cache[CATALOG_CACHE_KEY][1]))
          => /\ readers'[r].pc = "idle"
             /\ readers'[r].ret = cache[CATALOG_CACHE_KEY]]_vars
\* the doctor named in every prefix of a payload is who
PrefixesName(catalog_json, who) ==
    \A code \in DOMAIN catalog_json.message_prefixes :
        catalog_json.message_prefixes[code].doctor = who

\* C30: whatever doctor_share requests have been served, the cached payload
\* carries the generic "your doctor" prefixes, and the payload rendered for a
\* request names the requesting doctor only ("your doctor" when the doctor's
\* name is blank) and is otherwise the payload the gateway returned.
C30_OverrideLeavesCacheGeneric ==
    /\ cache[CATALOG_CACHE_KEY] # NoValue
          => PrefixesName(cache[CATALOG_CACHE_KEY][1], YourDoctor)
    /\ \A r \in Readers :
          (call[r].out # NoValue /\ "status" \notin DOMAIN call[r].out[1])
          => /\ PrefixesName(call[r].out[1],
                    IF Strip(call[r].full_name) = << >> THEN YourDoctor
                    ELSE Strip(call[r].full_name))
             /\ DOMAIN call[r].out[1].message_prefixes = LANGUAGE_CODES
             /\ call[r].pc = "idle" =>
                  \A k \in DOMAIN readers[r].ret[1] \ {"message_prefixes"} :
                      call[r].out[1][k] = readers[r].ret[1][k]

\* two doctors, one of them without a name, have been served their share
\* page, and the cache holds the payload of the database
C30_Witness ==
    /\ db = SeedDb
    /\ cache[CATALOG_CACHE_KEY] = Some(BuildCatalogPayload(SeedDb))
    /\ call[1].pc = "idle" /\ call[2].pc = "idle"
    /\ call[1].out # NoValue /\ call[2].out # NoValue
    /\ "status" \notin DOMAIN call[1].out[1] /\ "status" \notin DOMAIN call[2].out[1]
    /\ Strip(call[1].full_name) # << >> /\ Strip(call[2].full_name) = << >>
    /\ call[1].out[1].message_prefixes # call[2].out[1].message_prefixes

(***************************************************************************)
(* Claims about the discovery cache (checked under SpecMigrate)            *)
(***************************************************************************)

\* C25: once a discovery has succeeded, the cached names are never cleared
\* or replaced, whatever happens to the master schema, and every later call
\* with non-empty ids works with exactly the cached table and column names.
C25_DiscoveryCachedForProcessLifetime ==
    [][/\ metaCache # NoValue => metaCache' = metaCache
       /\ (EnsureCalled /\ metaCache # NoValue)
            => /\ eproc'[1].meta = metaCache
               /\ eproc'[1].pc # "idle"]_vars

\* a second call has ended after the master schema was changed to one on
\* which the discovery finds another enrollment table; the call worked with
\* the names discovered before the change
C25_Witness ==
    /\ eproc[1].calls = 2 /\ eproc[1].pc = "idle"
    /\ metaCache # NoValue
    /\ Discover(master.tables) \notin {NoValue, metaCache}
    /\ eproc[1].meta = metaCache

(***************************************************************************)
(* Claims about the columns of the enrollment INSERT (checked under        *)
(* SpecEnrollSeq)                                                          *)
(***************************************************************************)

OptionalColumns == {"whitelabel_enabled", "whitelabel_subdomain", "registered_at", "active"}

\* the step adds an enrollment row; NewRow is that row
RowAdded == EnrollInserted /\ master'.enrollment # master.enrollment
NewRow == CHOOSE r \in master'.enrollment : r \notin master.enrollment

\* the columns of the discovered table, and its registered-by column if any
DiscoveredColumns == DOMAIN TableNamed(master.tables, metaCache[1].table).cols
RegisteredByColumn ==
    IF metaCache[1].registered_by_col = "" THEN {} ELSE {metaCache[1].registered_by_col}

\* the four optional columns carry 0, "", the current time and 1
DefaultsOf(extra, now) ==
    /\ "whitelabel_enabled" \in DOMAIN extra => extra["whitelabel_enabled"] = <<0>>
    /\ "whitelabel_subdomain" \in DOMAIN extra => extra["whitelabel_subdomain"] = << >>
    /\ "registered_at" \in DOMAIN extra => extra["registered_at"] = <<now>>
    /\ "active" \in DOMAIN extra => extra["active"] = <<1>>

\* C26 as stated: besides the doctor and the campaign column, the INSERT
\* names each of whitelabel_enabled, whitelabel_subdomain, registered_at,
\* active and the registered-by column exactly when the table has it, with
\* the defaults 0, "", the current time and 1.
C26_InsertNamesPresentColumns ==
    [][RowAdded =>
          /\ {metaCache[1].doctor_col, metaCache[1].campaign_col} \subseteq DiscoveredColumns
          /\ DOMAIN NewRow.extra = (OptionalColumns \cup RegisteredByColumn) \cap DiscoveredColumns
          /\ DefaultsOf(NewRow.extra, ehist.calls)]_vars

\* C26 amended: the registered-by column is named exactly when the table has
\* it and registered_by, stripped, is a string of digits; its value is that
\* number.  The rest is as stated.
C26_InsertNamesPresentColumnsAmended ==
    [][RowAdded =>
          LET rb == Strip(eproc[1].registered_by)
              numeric == rb # << >> /\ \A i \in 1..Len(rb) : rb[i] \in DigitChars
              named == IF numeric THEN RegisteredByColumn ELSE {}
          IN  /\ {metaCache[1].doctor_col, metaCache[1].campaign_col} \subseteq DiscoveredColumns
              /\ DOMAIN NewRow.extra = (OptionalColumns \cup named) \cap DiscoveredColumns
              /\ DefaultsOf(NewRow.extra, ehist.calls)
              /\ \A c \in named \cap DiscoveredColumns : NewRow.extra[c] = <<ToInt(rb)>>]_vars

\* a row has been inserted with registered_by "7" into the table that has
\* three of the optional columns and the registered-by column
C26_Witness ==
    /\ eproc[1].pc = "idle" /\ eproc[1].result = "ok" /\ eproc[1].registered_by = <<"7">>
    /\ \E r \in master.enrollment :
          DOMAIN r.extra = {"whitelabel_enabled", "whitelabel_subdomain", "registered_at",
                            "registered_by_id"}

(***************************************************************************)
(* Claims about create_doctor_with_enrollment (checked under SpecCreate)   *)
(***************************************************************************)

\* C27: ensure_enrollment is called only after the doctor row has been
\* created and only with a campaign_id; it is called at most once per
\* create; when it raises, the create returns normally all the same, and the
\* doctor row the create made is still there.
C27_EnrollmentIsBestEffort ==
    [][/\ (ehist'.calls # ehist.calls)
            => /\ call.pc = "created"
               /\ call.campaign_id # << >>
               /\ \E r \in master.doctors : r.doctor_id = call.doctor_id
               /\ call'.attempts = 1
       /\ (call.pc = "enrolling" /\ call'.pc = "idle")
            => /\ call'.out = "ok"
               /\ call'.attempts = 1
               /\ \E r \in master'.doctors : r.doctor_id = call.doctor_id]_vars

\* a create has returned normally although its ensure_enrollment raised, and
\* the new doctor row is in place, without an enrollment row
C27_Witness ==
    /\ call.pc = "idle" /\ call.out = "ok" /\ call.doctor_id = "DR3"
    /\ call.attempts = 1
    /\ eproc[1].result = "error"
    /\ \E r \in master.doctors : r.doctor_id = "DR3"
    /\ master.enrollment = {}

(***************************************************************************)
(* Claims about cross-references in the payload (checked under SpecBuild)  *)
(***************************************************************************)

\* the values of a field over the records of a payload list
FieldValues(records, field) == {records[i][field] : i \in 1..Len(records)}

\* C29: in a built payload every trigger_code of a bundle and every entry of
\* a video's trigger_codes is the code of a record of triggers or empty,
\* every therapy_code and therapy_codes entry is the code of a record of
\* therapy_areas or empty, every entry of a bundle's video_codes is the id of
\* a record of videos, and every entry of a video's bundle_codes is the code
\* of a record of bundles.
C29_CrossReferencesResolve ==
    payload # NoValue =>
        LET p == payload[1]
            triggers == FieldValues(p.triggers, "code") \cup {<< >>}
            therapies == FieldValues(p.therapy_areas, "code") \cup {<< >>}
            videos == FieldValues(p.videos, "id")
            bundles == FieldValues(p.bundles, "code")
        IN  /\ \A i \in 1..Len(p.bundles) :
                  /\ p.bundles[i].trigger_code \in triggers
                  /\ p.bundles[i].therapy_code \in therapies
                  /\ SeqRange(p.bundles[i].video_codes) \subseteq videos
            /\ \A i \in 1..Len(p.videos) :
                  /\ SeqRange(p.videos[i].trigger_codes) \subseteq triggers
                  /\ SeqRange(p.videos[i].therapy_codes) \subseteq therapies
                  /\ SeqRange(p.videos[i].bundle_codes) \subseteq bundles

====
